---------------------------- MODULE Spec2Model ----------------------------
(***************************************************************************)
(* TastyAI: the conversational routing pipeline of fvaletk/tastyai.        *)
(*                                                                         *)
(* One request to POST /recommend (main.py, recommend_meal) runs the       *)
(* LangGraph flow of mcp/graph.py: intent -> {parse -> search ->} response.*)
(* The language model, the vector index and the generation model are       *)
(* oracles: their answers are chosen nondeterministically from small sets. *)
(* Texts are sequences of one-character strings, so that lower(), split(), *)
(* " ".join() and the `in` substring test are computed as Python does.     *)
(***************************************************************************)
EXTENDS Integers, Sequences, FiniteSets, TLC

VARIABLES
    log,                  \* the chat_messages table: conversation id -> rows in insertion order
    conversation_results, \* main.py's in-memory cache: conversation id -> stored results
    pc,                   \* where the request in flight is
    st,                   \* the TastyAIState of the request in flight
    visited,              \* the stages the request in flight has run, in order
    turn0,                \* what the request in flight read when it started
    last,                 \* the request that finished last, as its caller saw it
    nturns,               \* requests started so far
    call                  \* one application of a component on its own (component specifications)

vars == <<log, conversation_results, pc, st, visited, turn0, last, nturns, call>>

-----------------------------------------------------------------------------
(* Bounds of the model. *)

MaxTurns == 2       \* requests per behaviour
MaxResults == 2     \* longest list the retrieval oracle returns in the model
MaxHistory == 3     \* longest message history handed to the intent classifier on its own
MaxItems == 3       \* most title matches in the latest assistant message (resolver on its own)
MaxPool == 3        \* largest result pool handed to the recipe selection on its own
MaxOverlapTurns == 2  \* requests per behaviour when handlers are in flight together

-----------------------------------------------------------------------------
(* Text. *)

Whitespace == {" ", "\n", "\t"}

UpperCase == <<"A","B","C","D","E","F","G","H","I","J","K","L","M","N","O","P","Q","R","S","T","U","V","W","X","Y","Z">>
LowerCase == <<"a","b","c","d","e","f","g","h","i","j","k","l","m","n","o","p","q","r","s","t","u","v","w","x","y","z">>

LowerChar(c) ==
    IF \E i \in DOMAIN UpperCase : UpperCase[i] = c
    THEN LowerCase[CHOOSE i \in DOMAIN UpperCase : UpperCase[i] = c]
    ELSE c

\* str.lower()
Lower(s) == [i \in 1..Len(s) |-> LowerChar(s[i])]

RECURSIVE LStrip(_)
LStrip(s) == IF s # <<>> /\ Head(s) \in Whitespace THEN LStrip(Tail(s)) ELSE s

RECURSIVE RStrip(_)
RStrip(s) ==
    IF s # <<>> /\ s[Len(s)] \in Whitespace THEN RStrip(SubSeq(s, 1, Len(s) - 1)) ELSE s

\* str.strip()
Strip(s) == RStrip(LStrip(s))

RECURSIVE SplitFrom(_, _, _, _)
SplitFrom(s, i, cur, acc) ==
    IF i > Len(s)
    THEN IF cur = <<>> THEN acc ELSE Append(acc, cur)
    ELSE IF s[i] \in Whitespace
         THEN SplitFrom(s, i + 1, <<>>, IF cur = <<>> THEN acc ELSE Append(acc, cur))
         ELSE SplitFrom(s, i + 1, Append(cur, s[i]), acc)

\* str.split(): the words between runs of whitespace
Split(s) == SplitFrom(s, 1, <<>>, <<>>)

RECURSIVE Join(_)
\* " ".join(words)
Join(ws) ==
    IF ws = <<>> THEN <<>>
    ELSE IF Len(ws) = 1 THEN ws[1]
    ELSE ws[1] \o <<" ">> \o Join(Tail(ws))

\* " ".join(s.split())
Normalize(s) == Join(Split(s))

\* needle in hay (Python's substring test; the empty text is in every text)
Contains(hay, needle) ==
    \E i \in 0..(Len(hay) - Len(needle)) : SubSeq(hay, i + 1, i + Len(needle)) = needle

AnyIn(patterns, text) == \E p \in patterns : Contains(text, p)

-----------------------------------------------------------------------------
(* The recipes the retrieval oracle can return, and the user messages.      *)

TitleLasagna == <<"L","a","s","a","g","n","a"," ","B","o","l","o","g","n","e","s","e">>
TitlePizza == <<"M","a","r","g","h","e","r","i","t","a"," ","P","i","z","z","a">>

RecipeLasagna ==
    [title |-> TitleLasagna, ingredients |-> <<"pasta sheets", "ragu">>, directions |-> <<"layer", "bake">>]
RecipePizza ==
    [title |-> TitlePizza, ingredients |-> <<"dough">>, directions |-> <<"bake">>]

Recipes == {RecipeLasagna, RecipePizza}

MsgEmpty == <<>>
MsgItalianDinner == <<"i","t","a","l","i","a","n"," ","d","i","n","n","e","r">>
MsgRecipeForLasagna == <<"R","e","c","i","p","e"," ","f","o","r"," ","l","a","s","a","g","n","a">>
MsgPizzaPlease == <<"m","a","r","g","h","e","r","i","t","a"," ","p","i","z","z","a"," ","p","l","e","a","s","e">>

UserMsgs == {MsgEmpty, MsgItalianDinner, MsgRecipeForLasagna, MsgPizzaPlease}

ConvIds == {"c1"}

\* top_k of the index query
TopK == 3

RECURSIVE SeqsUpTo(_, _)
\* the sequences over S of length at most n
SeqsUpTo(S, n) ==
    IF n = 0 THEN {<<>>}
    ELSE LET shorter == SeqsUpTo(S, n - 1)
         IN  shorter \cup {Append(q, x) : q \in shorter, x \in S}

NoRepeat(q) == \A i, j \in DOMAIN q : i # j => q[i] # q[j]

\* What the retrieval oracle can return: ranked matches, none on failure. When it
\* returns both recipes the index ranks the lasagna first.
SearchAnswers ==
    {q \in SeqsUpTo(Recipes, IF MaxResults < TopK THEN MaxResults ELSE TopK) :
        NoRepeat(q) /\ q # <<RecipePizza, RecipeLasagna>>}



-----------------------------------------------------------------------------
(* Messages, as main.py and the graph nodes hand them to the agents.        *)

UserMessage(text) == [role |-> "user", content |-> text]
AssistantMessage(reply) == [role |-> "assistant", content |-> reply]

RECURSIVE LastUserContent(_)
\* next((m["content"] for m in reversed(messages) if m["role"] == "user"), "")
LastUserContent(messages) ==
    IF messages = <<>> THEN <<>>
    ELSE IF messages[Len(messages)].role = "user" THEN messages[Len(messages)].content
    ELSE LastUserContent(SubSeq(messages, 1, Len(messages) - 1))

assistant_messages(messages) == {i \in DOMAIN messages : messages[i].role = "assistant"}

\* conversation_agent.py: "recipes have been shown" is read off the presence of
\* assistant messages
recipes_have_been_shown(messages) == assistant_messages(messages) # {}

-----------------------------------------------------------------------------
(* IntentClassifier: agents/conversation_agent.py, classify_intent.         *)

Intents == {"new_search", "comparison", "recipe_request", "general"}

\* confidences in tenths
FallbackConfidence == 3
DefaultConfidence == 5
OracleConfidence == 9

NoReasoning == [overridden |-> FALSE, text |-> ""]
OracleReasoning == [overridden |-> FALSE, text |-> "oracle reasoning"]
FallbackReasoning == [overridden |-> FALSE, text |-> "fallback"]

\* What the classification oracle can answer: a failed call or unparsable output,
\* or a JSON object whose keys may be missing and whose intent may be any string.
IntentAnswers ==
    {[status |-> "fail", has_intent |-> FALSE, intent |-> "", has_confidence |-> FALSE,
      has_reasoning |-> FALSE]}
    \cup
    [status : {"ok"}, has_intent : {TRUE}, intent : Intents \cup {"other"},
     has_confidence : BOOLEAN, has_reasoning : BOOLEAN]
    \cup
    {[status |-> "ok", has_intent |-> FALSE, intent |-> "", has_confidence |-> TRUE,
      has_reasoning |-> TRUE]}

EarlyNewSearch ==
    [keys |-> {"intent"}, intent |-> "new_search", confidence |-> 0,
     reasoning |-> NoReasoning, oracle_called |-> FALSE]

\* classify_intent without its post-processing override
classify_intent_no_override(messages, ans) ==
    IF messages = <<>> THEN EarlyNewSearch
    ELSE IF LastUserContent(messages) = <<>> THEN EarlyNewSearch
    ELSE IF ans.status = "fail"
    THEN [keys |-> {"intent", "confidence", "reasoning"}, intent |-> "new_search",
          confidence |-> FallbackConfidence, reasoning |-> FallbackReasoning,
          oracle_called |-> TRUE]
    ELSE [keys |-> {"intent", "confidence", "reasoning"},
          intent |-> IF ans.has_intent THEN ans.intent ELSE "new_search",
          confidence |-> IF ans.has_confidence THEN OracleConfidence ELSE DefaultConfidence,
          reasoning |-> IF ans.has_reasoning THEN OracleReasoning ELSE NoReasoning,
          oracle_called |-> TRUE]

\* classify_intent whose except branch passes the failure on as a result of
\* its own instead of the fallback
classify_intent_failure_shows(messages, ans) ==
    IF ans.status = "fail" /\ messages # <<>> /\ LastUserContent(messages) # <<>>
    THEN [keys |-> {"error"}, intent |-> "error", confidence |-> 0,
          reasoning |-> NoReasoning, oracle_called |-> TRUE]
    ELSE classify_intent_no_override(messages, ans)

\* classify_intent without the early return for a history that holds no user
\* message
classify_intent_asks_without_user_message(messages, ans) ==
    IF messages = <<>> THEN EarlyNewSearch
    ELSE IF ans.status = "fail"
    THEN [keys |-> {"intent", "confidence", "reasoning"}, intent |-> "new_search",
          confidence |-> FallbackConfidence, reasoning |-> FallbackReasoning,
          oracle_called |-> TRUE]
    ELSE [keys |-> {"intent", "confidence", "reasoning"},
          intent |-> IF ans.has_intent THEN ans.intent ELSE "new_search",
          confidence |-> IF ans.has_confidence THEN OracleConfidence ELSE DefaultConfidence,
          reasoning |-> IF ans.has_reasoning THEN OracleReasoning ELSE NoReasoning,
          oracle_called |-> TRUE]

classify_intent(messages, ans) ==
    IF messages = <<>> THEN EarlyNewSearch
    ELSE IF LastUserContent(messages) = <<>> THEN EarlyNewSearch
    ELSE IF ans.status = "fail"
    THEN [keys |-> {"intent", "confidence", "reasoning"}, intent |-> "new_search",
          confidence |-> FallbackConfidence, reasoning |-> FallbackReasoning,
          oracle_called |-> TRUE]
    ELSE LET intent == IF ans.has_intent THEN ans.intent ELSE "new_search"
             confidence == IF ans.has_confidence THEN OracleConfidence ELSE DefaultConfidence
             reasoning == IF ans.has_reasoning THEN OracleReasoning ELSE NoReasoning
             override == intent = "recipe_request" /\ ~recipes_have_been_shown(messages)
         IN  [keys |-> {"intent", "confidence", "reasoning"},
              intent |-> IF override THEN "new_search" ELSE intent,
              confidence |-> confidence,
              reasoning |-> IF override THEN [reasoning EXCEPT !.overridden = TRUE] ELSE reasoning,
              oracle_called |-> TRUE]

-----------------------------------------------------------------------------
(* Response generation: agents/response_agent.py.                           *)

Triggers == {
    <<"g","i","v","e"," ","m","e"," ","t","h","e"," ","r","e","c","i","p","e">>,
    <<"s","h","o","w"," ","m","e"," ","t","h","e"," ","r","e","c","i","p","e">>,
    <<"h","o","w"," ","d","o"," ","i"," ","m","a","k","e">>,
    <<"h","o","w"," ","t","o"," ","m","a","k","e">>,
    <<"f","u","l","l"," ","r","e","c","i","p","e">>,
    <<"r","e","c","i","p","e"," ","f","o","r">>,
    <<"w","o","u","l","d"," ","l","i","k","e"," ","t","h","e"," ","r","e","c","i","p","e">>,
    <<"w","a","n","t"," ","t","h","e"," ","r","e","c","i","p","e">>,
    <<"n","e","e","d"," ","t","h","e"," ","r","e","c","i","p","e">>,
    <<"c","a","n"," ","i"," ","h","a","v","e"," ","t","h","e"," ","r","e","c","i","p","e">>,
    <<"c","o","u","l","d"," ","y","o","u"," ","g","i","v","e"," ","m","e"," ","t","h","e"," ","r","e","c","i","p","e">>,
    <<"i","n","s","t","r","u","c","t","i","o","n","s">>,
    <<"p","r","e","p","a","r","a","t","i","o","n">>,
    <<"h","o","w"," ","t","o"," ","p","r","e","p","a","r","e">>,
    <<"h","o","w"," ","d","o"," ","y","o","u"," ","m","a","k","e">>,
    <<"r","e","c","i","p","e"," ","p","l","e","a","s","e">>,
    <<"t","h","e"," ","r","e","c","i","p","e">> }

RequestWords == {
    <<"r","e","c","i","p","e">>, <<"f","o","r">>, <<"y","e","s">>, <<"p","l","e","a","s","e">>,
    <<"g","i","v","e">>, <<"s","h","o","w">>, <<"w","a","n","t">>, <<"l","i","k","e">> }

\* words of a title that count as significant: len(w) > 3
SignificantLen == 3
\* how many of them must occur in the message
MinKeyWords == 2

\* [w for w in normalized_recipe.split() if len(w) > 3]
recipe_words(normalized_recipe) ==
    SelectSeq(Split(normalized_recipe), LAMBDA w : Len(w) > SignificantLen)

\* sum(1 for word in recipe_words if word in normalized_msg)
matched_words(words, normalized_msg) ==
    Cardinality({i \in DOMAIN words : Contains(normalized_msg, words[i])})

\* the full title occurs in the message
TitleInMessage(recipe, msg) ==
    LET recipe_title == Strip(Lower(recipe.title))
    IN  recipe_title # <<>> /\ Contains(Normalize(msg), Normalize(recipe_title))

\* at least two significant words of the title occur in the message
KeyWordsInMessage(recipe, msg) ==
    LET recipe_title == Strip(Lower(recipe.title))
        words == recipe_words(Normalize(recipe_title))
    IN  /\ recipe_title # <<>>
        /\ Len(words) >= MinKeyWords
        /\ matched_words(words, Normalize(msg)) >= MinKeyWords

\* user_requested_full_recipe, from the last user message on
RequestsFullRecipe(content, results) ==
    LET last_user_msg == Lower(content)
    IN  /\ last_user_msg # <<>>
        /\ \/ AnyIn(Triggers, last_user_msg)
           \/ \E i \in DOMAIN results :
                 /\ \/ TitleInMessage(results[i], last_user_msg)
                    \/ KeyWordsInMessage(results[i], last_user_msg)
                 /\ AnyIn(RequestWords, Normalize(last_user_msg))

Min(S) == CHOOSE x \in S : \A y \in S : x <= y

\* The loop of generate_response that looks for the recipe the user named: the
\* first entry, in pool order, whose title or key words occur in the message;
\* 0 when there is none.
MentionedRecipe(content, results) ==
    LET last_user_msg == Lower(content)
        hits == {i \in DOMAIN results :
                    \/ TitleInMessage(results[i], last_user_msg)
                    \/ KeyWordsInMessage(results[i], last_user_msg)}
    IN  IF last_user_msg = <<>> \/ hits = {} THEN 0 ELSE Min(hits)

\* The two text computations above, tabulated once for the messages and result
\* lists of the request pipeline.
TextTable ==
    [content \in UserMsgs, results \in SearchAnswers |->
        [wants |-> RequestsFullRecipe(content, results),
         mentioned |-> MentionedRecipe(content, results)]]

user_requested_full_recipe(messages, results) ==
    LET content == LastUserContent(messages)
    IN  /\ messages # <<>>
        /\ IF <<content, results>> \in DOMAIN TextTable
           THEN TextTable[content, results].wants
           ELSE RequestsFullRecipe(content, results)

top_recipe(messages, results) ==
    LET content == LastUserContent(messages)
        mentioned == IF <<content, results>> \in DOMAIN TextTable
                     THEN TextTable[content, results].mentioned
                     ELSE MentionedRecipe(content, results)
    IN  IF messages = <<>> \/ mentioned = 0 THEN results[1] ELSE results[mentioned]

\* results[:5]
OptionsShown == 5
Take(s, n) == SubSeq(s, 1, IF Len(s) < n THEN Len(s) ELSE n)
Titles(results) == [i \in DOMAIN results |-> results[i].title]

\* A reply, by what it shows: the recipe titles it names, whether it carries a
\* full ingredients/directions block, and whether its text is empty.
Reply(kind, shown, empty) == [kind |-> kind, shown |-> shown, empty |-> empty]

ApologyReply == Reply("apology", <<>>, FALSE)
HelpfulReply == Reply("helpful", <<>>, FALSE)

\* What the generation oracle can do: answer with text, answer with empty text, fail.
GenerationAnswers == {"text", "empty", "fail"}

generate_response(preferences, results, messages, gen) ==
    IF user_requested_full_recipe(messages, results) /\ results # <<>>
    THEN Reply("full_recipe", <<top_recipe(messages, results).title>>, FALSE)
    ELSE IF results # <<>>
    THEN IF gen = "fail"
         THEN Reply("options_fallback", Titles(Take(results, OptionsShown)), FALSE)
         ELSE Reply("options", Titles(Take(results, OptionsShown)), gen = "empty")
    ELSE ApologyReply

-----------------------------------------------------------------------------
(* The persistent log: db/services.py.                                      *)

\* save_message_to_db(conversation_id, role, content): one row appended (the
\* database is taken to accept every row)
save_message_to_db(table, conversation_id, message) ==
    [table EXCEPT ![conversation_id] = Append(@, message)]

\* load_conversation_history(conversation_id): the rows of the conversation, oldest first
load_conversation_history(table, conversation_id) == table[conversation_id]

-----------------------------------------------------------------------------
(* The state the graph passes from node to node: mcp/schema.py.             *)
(* None is "None" for a text field, the empty sequence for a list (the code *)
(* only ever tests a list for being empty or None), NoReply for a reply.    *)

NoReply == Reply("none", <<>>, TRUE)

\* a state whose intent field has a default other than None
TastyAIState_intent_preset(user_input, conversation_id, messages, results) ==
    [user_input |-> user_input,
     conversation_id |-> conversation_id,
     preferences |-> "None",
     results |-> results,
     previous_results |-> <<>>,
     generated_response |-> NoReply,
     intent |-> "new_search",
     intent_reasoning |-> NoReasoning,
     recipe_request_type |-> "None",
     matched_recipe_title |-> <<>>,
     dish_name |-> <<>>,
     messages |-> messages]

TastyAIState(user_input, conversation_id, messages, results) ==
    [user_input |-> user_input,
     conversation_id |-> conversation_id,
     preferences |-> "None",
     results |-> results,
     previous_results |-> <<>>,
     generated_response |-> NoReply,
     intent |-> "None",
     intent_reasoning |-> NoReasoning,
     recipe_request_type |-> "None",
     matched_recipe_title |-> <<>>,
     dish_name |-> <<>>,
     messages |-> messages]

NoState == TastyAIState(<<>>, "", <<>>, <<>>)
NoTurn == [conversation_id |-> "", cache |-> <<>>, log_len |-> 0]
NoLast ==
    [conversation_id |-> "", status |-> "none", detail |-> "", intent |-> "None",
     visited |-> <<>>, cache_before |-> <<>>, results |-> <<>>, reply |-> NoReply]

\* What the preference parser can do: return a valid slot set, fail (the stage's
\* all-unknown fallback), or return JSON that UserPreferences(**preferences) rejects.
ParseAnswers == {"prefs_italian", "fail", "invalid"}

-----------------------------------------------------------------------------
(* The graph: mcp/graph.py.                                                 *)

\* route_after_intent with an else branch that takes an unknown intent for a
\* follow-up
route_after_intent_unknown_is_general(state) ==
    IF state.intent = "new_search" THEN "new_search"
    ELSE IF state.intent = "comparison" THEN "comparison"
    ELSE IF state.intent = "recipe_request" THEN "recipe_request"
    ELSE "general"

route_after_intent(state) ==
    IF state.intent = "new_search" THEN "new_search"
    ELSE IF state.intent = "comparison" THEN "comparison"
    ELSE IF state.intent = "recipe_request" THEN "recipe_request"
    ELSE IF state.intent = "general" THEN "general"
    ELSE "new_search"

IntentEdges_comparison_searches ==
    [new_search |-> "parse", comparison |-> "parse", recipe_request |-> "response",
     general |-> "response"]

\* build_graph: the conditional edges leaving the intent node. No edge leads to
\* the nodes recipe_analysis and show_recipes that build_graph also adds, so no
\* request ever runs them and they are no actions of this specification.
IntentEdges ==
    [new_search |-> "parse", comparison |-> "response", recipe_request |-> "response",
     general |-> "response"]

\* build_graph: the plain edges
Edges_search_again ==
    [parse |-> "search", search |-> "search", response |-> "END", show_recipes |-> "END"]

Edges == [parse |-> "search", search |-> "response", response |-> "END", show_recipes |-> "END"]

\* results_dicts + [r for r in previous_results_dicts if r not in results_dicts]
CombineResults(results, previous_results) ==
    results \o SelectSeq(previous_results, LAMBDA r : \A i \in DOMAIN results : results[i] # r)

\* response_node: the recipes handed to the reply; the carried-over list is
\* appended for a recipe request only, and only when there is one
all_results(intent, results, previous_results) ==
    IF intent = "recipe_request" /\ previous_results # <<>>
    THEN CombineResults(results, previous_results)
    ELSE results

\* recommend_meal, up to graph.invoke: the history and the cached results are read
StartTurn(c, m) ==
    /\ pc = "idle"
    /\ nturns < MaxTurns
    /\ LET db_messages == Append(load_conversation_history(log, c), UserMessage(m))
           previous_results == conversation_results[c]
       IN  /\ st' = TastyAIState(m, c, db_messages, previous_results)
           /\ turn0' = [conversation_id |-> c, cache |-> previous_results, log_len |-> Len(log[c])]
    /\ pc' = "intent"
    /\ visited' = <<>>
    /\ nturns' = nturns + 1
    /\ UNCHANGED <<log, conversation_results, last, call>>

IntentNodeSave_nothing_saved ==
    /\ pc = "intent"
    /\ pc' = "intent_classify"
    /\ UNCHANGED <<log, conversation_results, st, visited, turn0, last, nturns, call>>

\* intent_node, first half: the user message is saved
IntentNodeSave ==
    /\ pc = "intent"
    /\ log' = IF st.user_input # <<>>
              THEN save_message_to_db(log, st.conversation_id, UserMessage(st.user_input))
              ELSE log
    /\ pc' = "intent_classify"
    /\ UNCHANGED <<conversation_results, st, visited, turn0, last, nturns, call>>

\* intent_node, second half: the classification and the routing on its result
IntentNodeClassify(ans) ==
    /\ pc = "intent_classify"
    /\ LET intent == classify_intent(st.messages, ans)
           state == [st EXCEPT !.intent = intent.intent,
                               !.intent_reasoning = intent.reasoning]
       IN  /\ st' = state
           /\ pc' = IntentEdges[route_after_intent(state)]
    /\ visited' = Append(visited, "intent")
    /\ UNCHANGED <<log, conversation_results, turn0, last, nturns, call>>

\* parser_node
ParserNode(parsed) ==
    /\ pc = "parse"
    /\ visited' = Append(visited, "parse")
    /\ IF parsed = "invalid"
       THEN /\ pc' = "raised"
            /\ st' = st
       ELSE /\ pc' = Edges.parse
            /\ st' = [st EXCEPT !.messages = Append(@, UserMessage(st.user_input)),
                                !.preferences = IF parsed = "fail" THEN "all_unknown" ELSE parsed]
    /\ UNCHANGED <<log, conversation_results, turn0, last, nturns, call>>

\* search_node
SearchNode(matches) ==
    /\ pc = "search"
    /\ visited' = Append(visited, "search")
    /\ st' = [st EXCEPT !.results = matches]
    /\ pc' = Edges.search
    /\ UNCHANGED <<log, conversation_results, turn0, last, nturns, call>>

\* response_node
ResponseNode(gen) ==
    /\ pc = "response"
    /\ visited' = Append(visited, "response")
    /\ LET last_is_input ==
               /\ st.messages # <<>>
               /\ st.messages[Len(st.messages)].role = "user"
               /\ st.messages[Len(st.messages)].content = st.user_input
           updated_messages ==
               IF st.user_input # <<>> /\ ~last_is_input
               THEN Append(st.messages, UserMessage(st.user_input))
               ELSE st.messages
           updated_preferences ==
               IF st.preferences = "None" THEN "default_english" ELSE st.preferences
           results_dicts ==
               all_results(st.intent, st.results, st.previous_results)
           reply ==
               IF st.intent = "recipe_request" /\ results_dicts = <<>>
               THEN HelpfulReply
               ELSE generate_response(updated_preferences, results_dicts, updated_messages, gen)
       IN  /\ log' = IF ~reply.empty
                     THEN save_message_to_db(log, st.conversation_id, AssistantMessage(reply))
                     ELSE log
           /\ st' = [st EXCEPT !.messages = updated_messages,
                               !.preferences = updated_preferences,
                               !.generated_response = reply]
    /\ pc' = Edges.response
    /\ UNCHANGED <<conversation_results, turn0, last, nturns, call>>

\* What the caller of the request sees (status, error detail, reply), with the
\* results the graph ended on and what the request had read at its start. An
\* error response carries no reply.
Finished(status, detail) ==
    [conversation_id |-> st.conversation_id, status |-> status, detail |-> detail,
     intent |-> st.intent, visited |-> visited, cache_before |-> turn0.cache,
     results |-> st.results,
     reply |-> IF status = "200" THEN st.generated_response ELSE NoReply]

\* recommend_meal, after graph.invoke returned. The HTTPException of a missing
\* datum is raised inside the try block, so `except Exception` wraps its text.
FinishTurn ==
    /\ pc = "END"
    /\ \/ /\ st.preferences = "None" \/ st.results = <<>>
          /\ last' = Finished("500", IF st.preferences = "None"
                                     THEN "Internal error: 500: Parser failed to extract preferences."
                                     ELSE "Internal error: 500: Search agent failed to find recipes.")
          /\ UNCHANGED conversation_results
       \/ /\ st.preferences # "None" /\ st.results # <<>>
          /\ conversation_results' = [conversation_results EXCEPT ![st.conversation_id] = st.results]
          /\ last' = Finished("200", "")
    /\ pc' = "idle"
    /\ st' = NoState
    /\ turn0' = NoTurn
    /\ visited' = <<>>
    /\ UNCHANGED <<log, nturns, call>>

\* recommend_meal, when graph.invoke raised: except Exception -> HTTP 500
FinishRaised ==
    /\ pc = "raised"
    /\ last' = Finished("500", "Internal error: validation error for UserPreferences")
    /\ pc' = "idle"
    /\ st' = NoState
    /\ turn0' = NoTurn
    /\ visited' = <<>>
    /\ UNCHANGED <<log, conversation_results, nturns, call>>

NoCall == [op |-> "none"]

Init ==
    /\ log = [c \in ConvIds |-> <<>>]
    /\ conversation_results = [c \in ConvIds |-> <<>>]
    /\ pc = "idle"
    /\ st = NoState
    /\ visited = <<>>
    /\ turn0 = NoTurn
    /\ last = NoLast
    /\ nturns = 0
    /\ call = NoCall

Next ==
    \/ \E c \in ConvIds, m \in UserMsgs : StartTurn(c, m)
    \/ IntentNodeSave
    \/ \E ans \in IntentAnswers : IntentNodeClassify(ans)
    \/ \E parsed \in ParseAnswers : ParserNode(parsed)
    \/ \E matches \in SearchAnswers : SearchNode(matches)
    \/ \E gen \in GenerationAnswers : ResponseNode(gen)
    \/ FinishTurn
    \/ FinishRaised

Spec == Init /\ [][Next]_vars

\* graph.invoke runs each node as soon as the node before it returned, and
\* recommend_meal returns as soon as the graph did: a step that can be taken is taken
FairSpec == Spec /\ WF_vars(Next)

-----------------------------------------------------------------------------
(* The intent classifier on its own: every history up to MaxHistory         *)
(* messages, every oracle answer.                                           *)

PipelineIdle ==
    /\ log = [c \in ConvIds |-> <<>>]
    /\ conversation_results = [c \in ConvIds |-> <<>>]
    /\ pc = "idle"
    /\ st = NoState
    /\ visited = <<>>
    /\ turn0 = NoTurn
    /\ last = NoLast
    /\ nturns = 0

PipelineUnchanged ==
    UNCHANGED <<log, conversation_results, pc, st, visited, turn0, last, nturns>>

HistoryMessages ==
    {UserMessage(MsgEmpty), UserMessage(MsgItalianDinner),
     AssistantMessage(ApologyReply),
     AssistantMessage(Reply("options", <<TitleLasagna>>, FALSE))}

Histories == SeqsUpTo(HistoryMessages, MaxHistory)

InitClassify ==
    /\ PipelineIdle
    /\ call \in [op : {"classify_intent"}, messages : Histories, answer : IntentAnswers,
                 done : {FALSE}, result : {EarlyNewSearch}]

ClassifyCall ==
    /\ call.op = "classify_intent"
    /\ ~call.done
    /\ call' = [call EXCEPT !.done = TRUE,
                            !.result = classify_intent(call.messages, call.answer)]
    /\ PipelineUnchanged

SpecClassify == InitClassify /\ [][ClassifyCall]_vars

-----------------------------------------------------------------------------
(* RequestResolver and its reference extraction:                            *)
(* agents/recipe_request_agent.py, analyze_recipe_request.                  *)
(*                                                                          *)
(* The text of an assistant message is, for the three regular expressions,  *)
(* the sequence of their matches in text order: each element is the pattern *)
(* that matches there and the title it captures.                            *)

TitleLasagnaLower == <<"l","a","s","a","g","n","a"," ","b","o","l","o","g","n","e","s","e">>
TitleSoup == <<"M","i","n","e","s","t","r","o","n","e"," ","S","o","u","p">>

\* a bold section heading of a full recipe, which is no title
HeadingIngredients == <<"I","n","g","r","e","d","i","e","n","t","s">>

MsgFirstOne == <<"t","h","e"," ","f","i","r","s","t"," ","o","n","e">>
MsgSecondOne == <<"t","h","e"," ","s","e","c","o","n","d"," ","o","n","e">>
MsgThirdOne == <<"t","h","e"," ","t","h","i","r","d"," ","o","n","e">>
MsgLong == <<"i"," ","w","o","u","l","d"," ","l","i","k","e"," ","s","o","m","e","t","h","i","n","g"," ","e","l","s","e"," ","f","o","r"," ","d","i","n","n","e","r">>
MsgFiveWords == <<"s","h","o","w"," ","m","e"," ","t","h","a","t"," ","d","i","s","h"," ","a","g","a","i","n">>
MsgSixWords == <<"s","h","o","w"," ","m","e"," ","t","h","a","t"," ","d","i","s","h"," ","o","n","c","e"," ","a","g","a","i","n">>

excluded_words == {
    <<"c","r","u","s","t">>, <<"i","n","g","r","e","d","i","e","n","t","s">>,
    <<"t","o","p","p","i","n","g","s">>, <<"d","i","r","e","c","t","i","o","n","s">>,
    <<"s","o","u","r","c","e">>, <<"r","e","c","i","p","e">>, <<"o","p","t","i","o","n">>,
    <<"c","h","o","i","c","e">> }

\* a title must be longer than this
MinTitleLen == 3

Patterns == <<"numbered", "bold", "header">>

RECURSIVE StripStars(_)
\* str.strip('*')
StripStars(s) ==
    IF s # <<>> /\ Head(s) = "*" THEN StripStars(Tail(s))
    ELSE IF s # <<>> /\ s[Len(s)] = "*" THEN StripStars(SubSeq(s, 1, Len(s) - 1))
    ELSE s

\* the title of a match, cleaned as the loop of its pattern cleans it
CleanTitle(element) ==
    IF element.pattern = "numbered"
    THEN Strip(StripStars(Strip(element.title)))
    ELSE Strip(element.title)

\* the test of the loops without the bound on the length
ValidTitle_any_length(title) ==
    LET title_lower == Lower(title)
        words == Split(title_lower)
    IN  /\ title # <<>>
        /\ title_lower \notin excluded_words
        /\ ~(\A i \in DOMAIN words : words[i] \in excluded_words)

\* the test every loop applies before it accepts a title
ValidTitle(title) ==
    LET title_lower == Lower(title)
        words == Split(title_lower)
    IN  /\ title # <<>>
        /\ Len(title) > MinTitleLen
        /\ title_lower \notin excluded_words
        /\ ~(\A i \in DOMAIN words : words[i] \in excluded_words)

seen_titles(shown) == {Lower(shown[i]) : i \in DOMAIN shown}

RECURSIVE AddTitles(_, _)
\* one extraction loop: the valid titles not seen yet are appended in match order
AddTitles(shown, titles) ==
    IF titles = <<>> THEN shown
    ELSE LET title == Head(titles)
         IN  IF ValidTitle(title) /\ Lower(title) \notin seen_titles(shown)
             THEN AddTitles(Append(shown, title), Tail(titles))
             ELSE AddTitles(shown, Tail(titles))

\* re.findall of one pattern on a message text, each title cleaned
Matches(content, pattern) ==
    LET hits == SelectSeq(content.elements, LAMBDA e : e.pattern = pattern)
    IN  [i \in DOMAIN hits |-> CleanTitle(hits[i])]

\* the three loops on one assistant message: numbered, then bold, then header
ExtractFromMessage(shown, content) ==
    AddTitles(AddTitles(AddTitles(shown, Matches(content, "numbered")),
                        Matches(content, "bold")),
              Matches(content, "header"))

RECURSIVE ScanReversed(_, _, _)
\* for msg in reversed(messages): the assistant messages, most recent first
ScanReversed(messages, i, shown) ==
    IF i = 0 THEN shown
    ELSE IF messages[i].role = "assistant"
    THEN ScanReversed(messages, i - 1, ExtractFromMessage(shown, messages[i].content))
    ELSE ScanReversed(messages, i - 1, shown)

Reverse(s) == [i \in 1..Len(s) |-> s[Len(s) + 1 - i]]

\* list(reversed(previously_shown_recipes))
previously_shown_recipes(messages) == Reverse(ScanReversed(messages, Len(messages), <<>>))

\* the fallback takes a message of at most this many words for a short one
FallbackMaxWords == 5

Analysis(type, matched_recipe_title, dish_name, reasoning) ==
    [type |-> type, matched_recipe_title |-> matched_recipe_title, dish_name |-> dish_name,
     reasoning |-> reasoning]

\* The resolution oracle. It fails, or it answers dish or new_dish, or it honours
\* the contract of the prompt: "the first one" is recipe #1 of the numbered list
\* it was handed, "the second one" recipe #2, and the title is copied verbatim.
\* Its JSON may also come without a type.
AnalysisAnswers == {"fail", "honours_contract", "dish", "new_dish", "no_type"}

OrdinalSaid(last_user_msg) ==
    IF last_user_msg = MsgFirstOne THEN 1
    ELSE IF last_user_msg = MsgSecondOne THEN 2
    ELSE IF last_user_msg = MsgThirdOne THEN 3
    ELSE 0

DishSaid == <<"p","i","z","z","a">>

OracleAnalysis(ans, last_user_msg, prompt_titles) ==
    LET k == OrdinalSaid(last_user_msg)
    IN  IF ans = "honours_contract" /\ k >= 1 /\ k <= Len(prompt_titles)
        THEN Analysis("specific_recipe", prompt_titles[k], <<>>, "ordinal reference")
        ELSE IF ans = "dish"
        THEN Analysis("dish", <<>>, DishSaid, "dish shown before")
        ELSE IF ans = "no_type"
        THEN Analysis("None", <<>>, <<>>, "")
        ELSE Analysis("new_dish", <<>>, <<>>, "new dish")

analyze_recipe_request_fallback_new_dish(messages, results, intent_reasoning, ans) ==
    LET last_user_msg == LastUserContent(messages)
        shown == previously_shown_recipes(messages)
    IN  IF messages = <<>>
        THEN Analysis("new_dish", <<>>, <<>>, "No conversation history")
        ELSE IF last_user_msg = <<>>
        THEN Analysis("new_dish", <<>>, <<>>, "No user message found")
        ELSE IF ans # "fail"
        THEN OracleAnalysis(ans, last_user_msg, shown)
        ELSE Analysis("new_dish", <<>>, <<>>, "Fallback: new dish")

\* the resolver with a fallback that looks at the length of the message only
analyze_recipe_request_fallback_by_length(messages, results, intent_reasoning, ans) ==
    LET last_user_msg == LastUserContent(messages)
        shown == previously_shown_recipes(messages)
    IN  IF messages = <<>>
        THEN Analysis("new_dish", <<>>, <<>>, "No conversation history")
        ELSE IF last_user_msg = <<>>
        THEN Analysis("new_dish", <<>>, <<>>, "No user message found")
        ELSE IF ans # "fail"
        THEN OracleAnalysis(ans, last_user_msg, shown)
        ELSE IF Len(Split(last_user_msg)) <= FallbackMaxWords
        THEN Analysis("dish", <<>>, <<>>, "Fallback: short message with previously shown recipes")
        ELSE Analysis("new_dish", <<>>, <<>>, "Fallback: new dish")

analyze_recipe_request(messages, results, intent_reasoning, ans) ==
    LET last_user_msg == LastUserContent(messages)
        shown == previously_shown_recipes(messages)
    IN  IF messages = <<>>
        THEN Analysis("new_dish", <<>>, <<>>, "No conversation history")
        ELSE IF last_user_msg = <<>>
        THEN Analysis("new_dish", <<>>, <<>>, "No user message found")
        ELSE IF ans # "fail"
        THEN OracleAnalysis(ans, last_user_msg, shown)
        ELSE IF shown # <<>> /\ Len(Split(last_user_msg)) <= FallbackMaxWords
        THEN Analysis("dish", <<>>, <<>>, "Fallback: short message with previously shown recipes")
        ELSE Analysis("new_dish", <<>>, <<>>, "Fallback: new dish")

(* The resolver on its own: a history of one or two assistant turns, the    *)
(* latest of at most MaxItems matches, the older of one match.              *)

Element(pattern, title) == [pattern |-> pattern, title |-> title]

Elements ==
    {Element("numbered", title) : title \in {TitleLasagna, TitlePizza, TitleSoup}}
    \cup {Element("bold", title) : title \in {TitleLasagna, TitleLasagnaLower, HeadingIngredients}}
    \cup {Element("header", TitlePizza)}

Content(elements) == [elements |-> elements]

ResolverHistories ==
    {<<UserMessage(last_msg)>> : last_msg \in {MsgFirstOne, MsgLong}}
    \cup
    {<<UserMessage(MsgItalianDinner), AssistantMessage(Content(latest)), UserMessage(last_msg)>> :
        latest \in SeqsUpTo(Elements, MaxItems),
        last_msg \in {MsgFirstOne, MsgSecondOne, MsgThirdOne, MsgLong}}
    \cup
    {<<UserMessage(MsgItalianDinner), AssistantMessage(Content(older)),
       UserMessage(MsgItalianDinner), AssistantMessage(Content(latest)), UserMessage(last_msg)>> :
        older \in {<<e>> : e \in Elements},
        latest \in SeqsUpTo(Elements, MaxItems),
        last_msg \in {MsgFirstOne, MsgSecondOne, MsgThirdOne}}

InitResolve ==
    /\ PipelineIdle
    /\ call \in [op : {"analyze_recipe_request"}, messages : ResolverHistories,
                 answer : {"fail", "honours_contract"}, done : {FALSE}, titles : {<<>>},
                 result : {Analysis("None", <<>>, <<>>, "")}]

ResolveCall ==
    /\ call.op = "analyze_recipe_request"
    /\ ~call.done
    /\ call' = [call EXCEPT
                  !.done = TRUE,
                  !.titles = previously_shown_recipes(call.messages),
                  !.result = analyze_recipe_request(call.messages, <<>>, "", call.answer)]
    /\ PipelineUnchanged

SpecResolve == InitResolve /\ [][ResolveCall]_vars

(* The resolver when its oracle may fail: a last user message of three,     *)
(* five, six or seven words, after no assistant message, after one that     *)
(* shows nothing and after one that shows one element.                      *)

FallbackHistories ==
    {<<>>}
    \cup
    {<<UserMessage(last_msg)>> : last_msg \in {MsgFirstOne, MsgFiveWords, MsgSixWords, MsgLong}}
    \cup
    {<<UserMessage(MsgItalianDinner), AssistantMessage(Content(latest)), UserMessage(last_msg)>> :
        latest \in {<<>>} \cup {<<e>> : e \in Elements},
        last_msg \in {MsgFirstOne, MsgFiveWords, MsgSixWords, MsgLong}}

InitFallback ==
    /\ PipelineIdle
    /\ call \in [op : {"analyze_recipe_request"}, messages : FallbackHistories,
                 answer : {"fail", "honours_contract"}, done : {FALSE}, titles : {<<>>},
                 result : {Analysis("None", <<>>, <<>>, "")}]

SpecFallback == InitFallback /\ [][ResolveCall]_vars

-----------------------------------------------------------------------------
(* Recipe selection: agents/services.py, handle_recipe_request, and         *)
(* agents/helpers.py, user_selected_recipe.                                 *)

TitleCreamyPasta == <<"C","r","e","a","m","y"," ","C","h","i","c","k","e","n"," ","P","a","s","t","a">>
TitleChickenSoup == <<"C","h","i","c","k","e","n"," ","S","o","u","p">>
TitleUnknown == <<"B","e","e","f"," ","S","t","e","w">>
\* the title of the lasagna with a run of two spaces
TitleLasagnaSpaced == <<"L","a","s","a","g","n","a"," "," ","B","o","l","o","g","n","e","s","e">>

RecipeCreamyPasta ==
    [title |-> TitleCreamyPasta, ingredients |-> <<"pasta", "cream">>, directions |-> <<"boil", "mix">>]
RecipeChickenSoup ==
    [title |-> TitleChickenSoup, ingredients |-> <<"chicken">>, directions |-> <<"simmer">>]
\* a title with one word of more than three letters
RecipeApplePie ==
    [title |-> <<"A","p","p","l","e"," ","P","i","e">>,
     ingredients |-> <<"apples">>, directions |-> <<"bake">>]

MsgChickenSoupCreamy == <<"r","e","c","i","p","e"," ","f","o","r"," ","c","h","i","c","k","e","n"," ","s","o","u","p",","," ","c","r","e","a","m","y">>
MsgLasagnaIsTheOne == <<"L","a","s","a","g","n","a"," ","B","o","l","o","g","n","e","s","e"," ","i","s"," ","t","h","e"," ","o","n","e">>
MsgOption2 == <<"o","p","t","i","o","n"," ","2">>
MsgTheAppleOne == <<"t","h","e"," ","a","p","p","l","e"," ","o","n","e"," ","p","l","e","a","s","e">>
MsgCreamyPasta == <<"t","h","e"," ","c","r","e","a","m","y"," ","c","h","i","c","k","e","n"," ","p","a","s","t","a">>

NoRecipe == [title |-> <<>>, ingredients |-> <<>>, directions |-> <<>>]

\* The loop of handle_recipe_request over the pool: the first entry, in pool
\* order, whose title or key words occur in the message; 0 when there is none.
NamedRecipe(last_user_msg, results) ==
    LET hits == {i \in DOMAIN results :
                    \/ TitleInMessage(results[i], last_user_msg)
                    \/ KeyWordsInMessage(results[i], last_user_msg)}
    IN  IF last_user_msg = <<>> \/ hits = {} THEN 0 ELSE Min(hits)

handle_recipe_request_no_fallback(preferences, results, messages) ==
    IF results = <<>> THEN [generated_response |-> ApologyReply]
    ELSE LET last_user_msg == Lower(LastUserContent(messages))
             named == IF messages = <<>> THEN 0 ELSE NamedRecipe(last_user_msg, results)
         IN  IF named = 0 THEN [generated_response |-> ApologyReply]
             ELSE [generated_response |-> Reply("full_recipe", <<results[named].title>>, FALSE)]

handle_recipe_request(preferences, results, messages) ==
    IF results = <<>> THEN [generated_response |-> ApologyReply]
    ELSE LET last_user_msg == Lower(LastUserContent(messages))
             named == IF messages = <<>> THEN 0 ELSE NamedRecipe(last_user_msg, results)
             chosen == IF named = 0 THEN results[1] ELSE results[named]
         IN  [generated_response |-> Reply("full_recipe", <<chosen.title>>, FALSE)]

\* number_map, in the order in which the dictionary is walked
number_map == <<
    [word |-> <<"f","i","r","s","t">>, index |-> 0],
    [word |-> <<"1">>, index |-> 0],
    [word |-> <<"o","n","e">>, index |-> 0],
    [word |-> <<"s","e","c","o","n","d">>, index |-> 1],
    [word |-> <<"2">>, index |-> 1],
    [word |-> <<"t","w","o">>, index |-> 1],
    [word |-> <<"t","h","i","r","d">>, index |-> 2],
    [word |-> <<"3">>, index |-> 2],
    [word |-> <<"t","h","r","e","e">>, index |-> 2] >>

\* The translation oracle for an English speaker: a faithful answer and the
\* fallback on failure both hand the text back.
TranslationAnswers == {"faithful", "fail"}

translate_to_english(text, answer) == IF answer = "fail" THEN text ELSE Strip(text)

\* The title oracle: it names a title, says "None", or fails.
TitleAnswers ==
    {[status |-> "fail", title |-> <<>>], [status |-> "none", title |-> <<>>]}
    \cup {[status |-> "title", title |-> t] :
            t \in {TitleLasagna, TitleLasagnaLower, TitleLasagnaSpaced, TitleChickenSoup,
                   TitleUnknown}}

resolve_recipe_reference(user_message, recipe_titles, answer) ==
    IF answer.status = "title" THEN answer.title ELSE <<>>

user_selected_recipe(messages, results, translation, answer) ==
    LET last_user_msg == Strip(LastUserContent(messages))
        translated_msg == translate_to_english(Lower(last_user_msg), translation)
        said == {k \in DOMAIN number_map :
                    /\ Contains(translated_msg, number_map[k].word)
                    /\ Len(results) > number_map[k].index}
        matched_title == resolve_recipe_reference(last_user_msg, Titles(results), answer)
        same == {i \in DOMAIN results :
                    Lower(Strip(results[i].title)) = Lower(Strip(matched_title))}
    IN  IF said # {} THEN results[number_map[Min(said)].index + 1]
        ELSE IF matched_title # <<>> /\ same # {} THEN results[Min(same)]
        ELSE NoRecipe

(* The selection on its own: a pool of at most MaxPool distinct recipes and *)
(* one user message.                                                        *)

PoolRecipes == {RecipeLasagna, RecipeCreamyPasta, RecipeChickenSoup, RecipeApplePie}

Pools == {q \in SeqsUpTo(PoolRecipes, MaxPool) : NoRepeat(q)}

SelectMsgs ==
    {MsgChickenSoupCreamy, MsgLasagnaIsTheOne, MsgOption2, MsgCreamyPasta,
     MsgFirstOne, MsgSecondOne, MsgThirdOne, MsgLong, MsgTheAppleOne}

SelectHistories == {<<>>} \cup {<<UserMessage(m)>> : m \in SelectMsgs}

InitSelect ==
    /\ PipelineIdle
    /\ \/ call \in [op : {"handle_recipe_request"}, messages : SelectHistories,
                    results : Pools, done : {FALSE},
                    result : {[generated_response |-> NoReply]}]
       \/ call \in [op : {"user_selected_recipe"}, messages : SelectHistories,
                    results : Pools, translation : TranslationAnswers,
                    answer : TitleAnswers, done : {FALSE}, result : {NoRecipe}]

HandleRecipeRequestCall ==
    /\ call.op = "handle_recipe_request"
    /\ ~call.done
    /\ call' = [call EXCEPT
                  !.done = TRUE,
                  !.result = handle_recipe_request("None", call.results, call.messages)]
    /\ PipelineUnchanged

UserSelectedRecipeCall ==
    /\ call.op = "user_selected_recipe"
    /\ ~call.done
    /\ call' = [call EXCEPT
                  !.done = TRUE,
                  !.result = user_selected_recipe(call.messages, call.results,
                                                  call.translation, call.answer)]
    /\ PipelineUnchanged

SelectNext == HandleRecipeRequestCall \/ UserSelectedRecipeCall

SpecSelect == InitSelect /\ [][SelectNext]_vars

-----------------------------------------------------------------------------
(* The pool of response_node on its own: the current results and the        *)
(* carried-over results are lists without a repeated title; two records of *)
(* the recipe base can carry the same title.                                *)

RecipeLasagnaLower ==
    [title |-> TitleLasagnaLower, ingredients |-> <<"pasta sheets", "ragu">>, directions |-> <<"layer", "bake">>]

PoolEntries == {RecipeLasagna, RecipePizza, RecipeLasagnaLower}

\* within one list no title occurs twice, whatever its case and spacing
DistinctTitles(q) ==
    \A i, j \in DOMAIN q :
        Normalize(Lower(Strip(q[i].title))) = Normalize(Lower(Strip(q[j].title))) => i = j

ResultLists == {q \in SeqsUpTo(PoolEntries, MaxPool) : DistinctTitles(q)}

InitPool ==
    /\ PipelineIdle
    /\ call \in [op : {"response_node"}, intent : Intents, results : ResultLists,
                 previous_results : ResultLists, done : {FALSE}, result : {<<>>}]

PoolCall ==
    /\ call.op = "response_node"
    /\ ~call.done
    /\ call' = [call EXCEPT
                  !.done = TRUE,
                  !.result = all_results(call.intent, call.results, call.previous_results)]
    /\ PipelineUnchanged

SpecPool == InitPool /\ [][PoolCall]_vars

-----------------------------------------------------------------------------
(* recommend_meal with handlers in flight at the same time. Nothing in      *)
(* main.py locks conversation_results between the read of line 69 and the   *)
(* write of line 96; here the handler is cut at those two statements and at *)
(* the two writes of the log inside graph.invoke, and the steps of two      *)
(* handlers may alternate. The graph is reduced to what it does to the      *)
(* results and to the log. Turns are numbered as they start; a handler      *)
(* remembers the turn of its conversation that started before it            *)
(* (`after`) and the turns of its conversation in flight when it started;   *)
(* `alone` is the cache of each conversation had its turns run by           *)
(* themselves, `writer` the turn that stored its results last.              *)

OverlapIds == {"c1", "c2"}

Handlers == {"h1", "h2"}

\* what retrieval can hand back here: one recipe, another one, nothing
OverlapAnswers == {<<RecipeLasagna>>, <<RecipePizza>>, <<>>}

\* conversation_results.get(conversation_id, None)
conversation_results_get_one_slot(cache, conversation_id) ==
    cache[CHOOSE c \in DOMAIN cache : TRUE]

conversation_results_get(cache, conversation_id) == cache[conversation_id]

\* conversation_results[conversation_id] = result['results']
conversation_results_set_merged(cache, conversation_id, results) ==
    [cache EXCEPT ![conversation_id] = CombineResults(results, @)]

conversation_results_set(cache, conversation_id, results) ==
    [cache EXCEPT ![conversation_id] = results]

NoHandler ==
    [pc |-> "idle", conversation_id |-> "None", turn |-> 0, after |-> 0, in_flight |-> {},
     carried |-> <<>>, route |-> "None", results |-> <<>>, raised |-> FALSE,
     wrote |-> FALSE]

InFlight(h) == call.req[h].pc \in {"intent", "graph", "finish"}

\* the results of the turn when it runs alone on the cache `cache`: what its
\* search found, or else the cache it was handed
AloneResults(cache, req) == IF req.route = "search" THEN req.results ELSE cache

\* what the turn leaves in the cache when it runs alone on the cache `cache`
AloneOn(cache, req) ==
    IF req.raised \/ AloneResults(cache, req) = <<>> THEN cache
    ELSE AloneResults(cache, req)

InitOverlap ==
    /\ log = [c \in OverlapIds |-> <<>>]
    /\ conversation_results = [c \in OverlapIds |-> <<>>]
    /\ pc = "idle"
    /\ st = NoState
    /\ visited = <<>>
    /\ turn0 = NoTurn
    /\ last = NoLast
    /\ nturns = 0
    /\ call = [op |-> "recommend_meal",
               req |-> [h \in Handlers |-> NoHandler],
               alone |-> [c \in OverlapIds |-> <<>>],
               overlapped |-> [c \in OverlapIds |-> FALSE],
               latest |-> [c \in OverlapIds |-> 0],
               writer |-> [c \in OverlapIds |-> 0]]

\* main.py 60-80: the history and the cached results of the conversation are read
HandlerStart(h, c) ==
    /\ call.req[h].pc \in {"idle", "done"}
    /\ nturns < MaxOverlapTurns
    /\ nturns' = nturns + 1
    /\ LET others == {g \in Handlers \ {h} : InFlight(g)}
           same == {g \in others : call.req[g].conversation_id = c}
       IN  call' = [call EXCEPT
                      !.req[h] = [NoHandler EXCEPT
                                    !.pc = "intent",
                                    !.conversation_id = c,
                                    !.turn = nturns + 1,
                                    !.after = call.latest[c],
                                    !.in_flight = {call.req[g].turn : g \in same},
                                    !.carried = conversation_results_get(conversation_results, c),
                                    !.results = conversation_results_get(conversation_results, c)],
                      !.overlapped[c] = @ \/ same # {},
                      !.latest[c] = nturns + 1]
    /\ UNCHANGED <<log, conversation_results, pc, st, visited, turn0, last>>

\* graph.invoke, intent_node: the user message is logged and the route is chosen
HandlerIntent(h, route) ==
    /\ call.req[h].pc = "intent"
    /\ log' = save_message_to_db(log, call.req[h].conversation_id, UserMessage(MsgItalianDinner))
    /\ call' = [call EXCEPT !.req[h].pc = "graph", !.req[h].route = route]
    /\ UNCHANGED <<conversation_results, pc, st, visited, turn0, last, nturns>>

\* graph.invoke, the rest: a search replaces the results or the parsed
\* preferences are rejected; any other route keeps the results; the reply is logged
HandlerGraph(h, matches, rejected) ==
    /\ call.req[h].pc = "graph"
    /\ LET req == call.req[h]
           raised == req.route = "search" /\ rejected
           results == IF req.route = "search" /\ ~raised THEN matches ELSE req.results
           reply == IF results = <<>> THEN ApologyReply
                    ELSE Reply("options", Titles(Take(results, OptionsShown)), FALSE)
       IN  /\ call' = [call EXCEPT !.req[h].pc = "finish",
                                   !.req[h].results = results,
                                   !.req[h].raised = raised]
           /\ log' = IF raised THEN log
                     ELSE save_message_to_db(log, req.conversation_id, AssistantMessage(reply))
    /\ UNCHANGED <<conversation_results, pc, st, visited, turn0, last, nturns>>

\* recommend_meal storing the results before it checks them
HandlerFinish_stores_first(h) ==
    /\ call.req[h].pc = "finish"
    /\ LET req == call.req[h]
           c == req.conversation_id
           stores == ~req.raised
       IN  /\ conversation_results' =
                 IF stores THEN conversation_results_set(conversation_results, c, req.results)
                 ELSE conversation_results
           /\ call' = [call EXCEPT
                         !.req[h].pc = "done",
                         !.req[h].wrote = stores,
                         !.alone[c] = AloneOn(@, req),
                         !.writer[c] = IF stores THEN req.turn ELSE @]
    /\ UNCHANGED <<log, pc, st, visited, turn0, last, nturns>>

\* main.py 84-117: the results are stored unless the turn failed
HandlerFinish(h) ==
    /\ call.req[h].pc = "finish"
    /\ LET req == call.req[h]
           c == req.conversation_id
           stores == ~req.raised /\ req.results # <<>>
       IN  /\ conversation_results' =
                 IF stores THEN conversation_results_set(conversation_results, c, req.results)
                 ELSE conversation_results
           /\ call' = [call EXCEPT
                         !.req[h].pc = "done",
                         !.req[h].wrote = stores,
                         !.alone[c] = AloneOn(@, req),
                         !.writer[c] = IF stores THEN req.turn ELSE @]
    /\ UNCHANGED <<log, pc, st, visited, turn0, last, nturns>>

OverlapNext ==
    \E h \in Handlers :
        \/ \E c \in OverlapIds : HandlerStart(h, c)
        \/ \E route \in {"search", "keep"} : HandlerIntent(h, route)
        \/ \E matches \in OverlapAnswers, rejected \in BOOLEAN : HandlerGraph(h, matches, rejected)
        \/ HandlerFinish(h)

SpecOverlap == InitOverlap /\ [][OverlapNext]_vars

-----------------------------------------------------------------------------
(* The stages behind recipe_analysis: the graph of build_graph entered at   *)
(* that node, with a recipe_request turn whose history shows a numbered     *)
(* list and whose state carries a pool.                                     *)

\* route_after_recipe_analysis
route_after_recipe_analysis_dish_searches(state) ==
    IF state.recipe_request_type = "specific_recipe" THEN "response" ELSE "parse"

route_after_recipe_analysis(state) ==
    IF state.recipe_request_type = "specific_recipe" THEN "response"
    ELSE IF state.recipe_request_type = "dish" THEN "show_recipes"
    ELSE "parse"

\* the conditional edges of recipe_analysis
RecipeAnalysisEdges == [response |-> "response", show_recipes |-> "show_recipes", parse |-> "parse"]

\* results_dicts + the carried-over list, when there is one
with_previous_results(state) ==
    IF state.previous_results # <<>>
    THEN CombineResults(state.results, state.previous_results)
    ELSE state.results

\* recipe_request_analysis_node
RecipeAnalysisNode(ans) ==
    /\ pc = "recipe_analysis"
    /\ visited' = Append(visited, "recipe_analysis")
    /\ LET analysis == analyze_recipe_request(st.messages, with_previous_results(st),
                                              st.intent_reasoning, ans)
           state == [st EXCEPT !.recipe_request_type = analysis.type,
                               !.matched_recipe_title = analysis.matched_recipe_title,
                               !.dish_name = analysis.dish_name]
       IN  /\ st' = state
           /\ pc' = RecipeAnalysisEdges[route_after_recipe_analysis(state)]
    /\ UNCHANGED <<log, conversation_results, turn0, last, nturns, call>>

\* show_recipes_node: the entries whose title holds the dish name, or all of
\* them when none does
filtered_results(results_dicts, dish_name) ==
    LET filtered == SelectSeq(results_dicts,
                              LAMBDA recipe : Contains(Lower(recipe.title), Lower(dish_name)))
    IN  IF dish_name # <<>> /\ filtered # <<>> THEN filtered ELSE results_dicts

\* handle_new_search: the options handed to the generation oracle, or listed
\* by the fallback
handle_new_search(preferences, results, messages, gen) ==
    IF results = <<>> THEN Reply("no_match_apology", <<>>, FALSE)
    ELSE IF gen = "fail"
    THEN Reply("options_fallback", Titles(Take(results, OptionsShown)), FALSE)
    ELSE Reply("options", Titles(Take(results, OptionsShown)), gen = "empty")

ShowRecipesNode(gen) ==
    /\ pc = "show_recipes"
    /\ visited' = Append(visited, "show_recipes")
    /\ LET updated_preferences ==
               IF st.preferences = "None" THEN "default_english" ELSE st.preferences
           results_dicts == filtered_results(with_previous_results(st), st.dish_name)
           assistant_msg == handle_new_search(updated_preferences, results_dicts, st.messages, gen)
       IN  /\ log' = IF ~assistant_msg.empty
                     THEN save_message_to_db(log, st.conversation_id, AssistantMessage(assistant_msg))
                     ELSE log
           /\ st' = [st EXCEPT !.preferences = updated_preferences,
                               !.generated_response = assistant_msg]
    /\ pc' = Edges.show_recipes
    /\ UNCHANGED <<conversation_results, turn0, last, nturns, call>>

RequestHistories ==
    {<<UserMessage(MsgItalianDinner), AssistantMessage(Content(latest)), UserMessage(last_msg)>> :
        latest \in {<<Element("numbered", TitleLasagna), Element("numbered", TitlePizza)>>,
                    <<Element("numbered", TitleLasagna)>>},
        last_msg \in {MsgFirstOne, MsgPizzaPlease, MsgLong}}

RequestPools ==
    {<<RecipeLasagna, RecipePizza>>, <<RecipeLasagna>>, <<RecipePizza>>, <<>>}

InitRequest ==
    /\ log = [c \in ConvIds |-> <<>>]
    /\ conversation_results = [c \in ConvIds |-> <<>>]
    /\ pc = "recipe_analysis"
    /\ \E messages \in RequestHistories, results \in RequestPools :
          st = [TastyAIState(LastUserContent(messages), "c1", messages, results)
                  EXCEPT !.intent = "recipe_request"]
    /\ visited = <<>>
    /\ turn0 = NoTurn
    /\ last = NoLast
    /\ nturns = 0
    /\ call = NoCall

RequestNext ==
    \/ \E ans \in AnalysisAnswers : RecipeAnalysisNode(ans)
    \/ \E gen \in GenerationAnswers : ShowRecipesNode(gen)
    \/ \E parsed \in ParseAnswers : ParserNode(parsed)
    \/ \E matches \in SearchAnswers : SearchNode(matches)
    \/ \E gen \in GenerationAnswers : ResponseNode(gen)

SpecRequest == InitRequest /\ [][RequestNext]_vars

-----------------------------------------------------------------------------
(* user_requested_full_recipe of agents/helpers.py, the variant that knows  *)
(* comparison questions, on its own.                                        *)

\* the phrases that count as an explicit request despite a comparison word
explicit_recipe_request(translated_msg) ==
    AnyIn({<<"g","i","v","e"," ","m","e"," ","t","h","e"," ","r","e","c","i","p","e"," ","f","o","r">>,
          <<"s","h","o","w"," ","m","e"," ","t","h","e"," ","r","e","c","i","p","e"," ","f","o","r">>,
          <<"i"," ","w","a","n","t"," ","t","h","e"," ","r","e","c","i","p","e">>,
          <<"r","e","c","i","p","e"," ","p","l","e","a","s","e">>,
          <<"f","u","l","l"," ","r","e","c","i","p","e">>},
          translated_msg)

helpers_user_requested_full_recipe(messages, results, translation, is_comparison) ==
    LET last_user_msg == LastUserContent(messages)
        translated_msg == translate_to_english(Lower(last_user_msg), translation)
        comparison_anti_patterns ==
            {<<"w","h","i","c","h"," ","o","n","e">>,
             <<"w","h","i","c","h"," ","i","s">>,
             <<"w","h","a","t"," ","i","s">>,
             <<"w","h","a","t","'","s"," ","t","h","e">>,
             <<"h","o","w"," ","d","o","e","s">>,
             <<"c","o","m","p","a","r","e">>,
             <<"d","i","f","f","e","r","e","n","c","e">>,
             <<"v","e","r","s","u","s">>,
             <<"v","s">>,
             <<"b","e","t","w","e","e","n">>,
             <<"o","r">>,
             <<"b","e","t","t","e","r">>,
             <<"p","r","e","f","e","r">>}
        triggers ==
            {<<"g","i","v","e"," ","m","e"," ","t","h","e"," ","r","e","c","i","p","e">>,
             <<"s","h","o","w"," ","m","e"," ","t","h","e"," ","r","e","c","i","p","e">>,
             <<"h","o","w"," ","d","o"," ","i"," ","m","a","k","e">>,
             <<"h","o","w"," ","t","o"," ","m","a","k","e">>,
             <<"f","u","l","l"," ","r","e","c","i","p","e">>,
             <<"r","e","c","i","p","e"," ","f","o","r">>,
             <<"w","o","u","l","d"," ","l","i","k","e"," ","t","h","e"," ","r","e","c","i","p","e">>,
             <<"w","a","n","t"," ","t","h","e"," ","r","e","c","i","p","e">>,
             <<"n","e","e","d"," ","t","h","e"," ","r","e","c","i","p","e">>,
             <<"c","a","n"," ","i"," ","h","a","v","e"," ","t","h","e"," ","r","e","c","i","p","e">>,
             <<"i","n","s","t","r","u","c","t","i","o","n","s"," ","f","o","r">>,
             <<"h","o","w"," ","t","o"," ","p","r","e","p","a","r","e">>,
             <<"r","e","c","i","p","e"," ","p","l","e","a","s","e">>,
             <<"i","'","l","l"," ","t","a","k","e">>,
             <<"i"," ","c","h","o","o","s","e">>,
             <<"l","e","t","'","s"," ","g","o"," ","w","i","t","h">>,
             <<"i","'","d"," ","l","i","k","e"," ","t","o"," ","t","r","y">>}
        selection_patterns ==
            {<<"t","h","e"," ","f","i","r","s","t"," ","o","n","e">>,
             <<"t","h","e"," ","s","e","c","o","n","d"," ","o","n","e">>,
             <<"t","h","e"," ","t","h","i","r","d"," ","o","n","e">>,
             <<"f","i","r","s","t"," ","r","e","c","i","p","e">>,
             <<"s","e","c","o","n","d"," ","r","e","c","i","p","e">>,
             <<"t","h","i","r","d"," ","r","e","c","i","p","e">>,
             <<"n","u","m","b","e","r"," ","1">>,
             <<"n","u","m","b","e","r"," ","2">>,
             <<"n","u","m","b","e","r"," ","3">>,
             <<"#","1">>,
             <<"#","2">>,
             <<"#","3">>,
             <<"o","p","t","i","o","n"," ","1">>,
             <<"o","p","t","i","o","n"," ","2">>,
             <<"o","p","t","i","o","n"," ","3">>}
        selection_intent ==
            {<<"y","e","s">>,
             <<"p","l","e","a","s","e">>,
             <<"t","h","i","s"," ","o","n","e">>,
             <<"t","h","a","t"," ","o","n","e">>,
             <<"s","o","u","n","d","s"," ","g","o","o","d">>,
             <<"i","'","l","l"," ","h","a","v","e">>,
             <<"i"," ","w","a","n","t">>,
             <<"g","i","v","e"," ","m","e">>,
             <<"s","h","o","w"," ","m","e">>}
    IN  IF messages = <<>> \/ is_comparison THEN FALSE
        ELSE IF AnyIn(comparison_anti_patterns, translated_msg)
                /\ ~explicit_recipe_request(translated_msg)
        THEN FALSE
        ELSE \/ AnyIn(triggers, translated_msg)
             \/ AnyIn(selection_patterns, translated_msg)
             \/ \E i \in DOMAIN results :
                   LET title == Strip(Lower(results[i].title))
                   IN  /\ title # <<>>
                       /\ Contains(translated_msg, Normalize(title))
                       /\ AnyIn(selection_intent, translated_msg)

MsgWhichOneIsBetter == <<"w","h","i","c","h"," ","o","n","e"," ","i","s"," ","b","e","t","t","e","r",","," ","t","h","e"," ","f","i","r","s","t"," ","o","n","e">>
MsgWhichTakesLonger == <<"w","h","i","c","h"," ","t","a","k","e","s"," ","l","o","n","g","e","r",","," ","t","h","e"," ","f","i","r","s","t"," ","o","n","e">>
MsgCompareAndGive == <<"c","o","m","p","a","r","e"," ","t","h","e","m"," ","a","n","d"," ","g","i","v","e"," ","m","e"," ","t","h","e"," ","r","e","c","i","p","e"," ","f","o","r"," ","l","a","s","a","g","n","a"," ","b","o","l","o","g","n","e","s","e">>
MsgLasagnaVersusPizza == <<"l","a","s","a","g","n","a"," ","b","o","l","o","g","n","e","s","e"," ","v","e","r","s","u","s"," ","m","a","r","g","h","e","r","i","t","a"," ","p","i","z","z","a"," ","p","l","e","a","s","e">>
MsgLasagnaPlease == <<"l","a","s","a","g","n","a"," ","b","o","l","o","g","n","e","s","e"," ","p","l","e","a","s","e">>
MsgTheDifference == <<"t","e","l","l"," ","m","e"," ","t","h","e"," ","d","i","f","f","e","r","e","n","c","e">>
MsgThanks == <<"t","h","a","n","k","s">>

\* is_follow_up_comparison of agents/helpers.py
is_follow_up_comparison(messages, results, translation) ==
    LET last_user_msg == LastUserContent(messages)
        translated_msg == translate_to_english(Lower(last_user_msg), translation)
        comparison_keywords ==
            {<<"c","o","m","p","a","r","e">>,
             <<"c","o","m","p","a","r","i","s","o","n">>,
             <<"w","h","i","c","h"," ","o","n","e">>,
             <<"w","h","i","c","h"," ","i","s">>,
             <<"d","i","f","f","e","r","e","n","c","e">>,
             <<"d","i","f","f","e","r","e","n","t">>,
             <<"v","s">>,
             <<"v","e","r","s","u","s">>,
             <<"b","e","t","w","e","e","n">>,
             <<"h","e","a","l","t","h","i","e","r">>,
             <<"m","o","r","e"," ","p","r","o","t","e","i","n">>,
             <<"f","e","w","e","r"," ","c","a","r","b","s">>,
             <<"l","e","s","s"," ","c","a","r","b","s">>,
             <<"m","o","r","e"," ","c","a","r","b","s">>,
             <<"c","a","l","o","r","i","e","s">>,
             <<"f","a","t"," ","c","o","n","t","e","n","t">>,
             <<"n","u","t","r","i","t","i","o","u","s">>,
             <<"q","u","i","c","k","e","r">>,
             <<"f","a","s","t","e","r">>,
             <<"s","l","o","w","e","r">>,
             <<"l","o","n","g","e","r">>,
             <<"s","h","o","r","t","e","r">>,
             <<"p","r","e","p"," ","t","i","m","e">>,
             <<"c","o","o","k","i","n","g"," ","t","i","m","e">>,
             <<"p","r","e","p","a","r","a","t","i","o","n"," ","t","i","m","e">>,
             <<"l","e","s","s"," ","t","i","m","e">>,
             <<"m","o","r","e"," ","t","i","m","e">>,
             <<"t","a","k","e","s"," ","l","e","s","s">>,
             <<"t","a","k","e","s"," ","m","o","r","e">>,
             <<"h","o","w"," ","l","o","n","g">>,
             <<"t","i","m","e"," ","t","o"," ","p","r","e","p","a","r","e">>,
             <<"t","i","m","e"," ","t","o"," ","c","o","o","k">>,
             <<"e","a","s","i","e","r">>,
             <<"s","i","m","p","l","e","r">>,
             <<"h","a","r","d","e","r">>,
             <<"m","o","r","e"," ","d","i","f","f","i","c","u","l","t">>,
             <<"c","o","m","p","l","i","c","a","t","e","d">>,
             <<"c","h","e","a","p","e","r">>,
             <<"e","x","p","e","n","s","i","v","e">>,
             <<"a","l","t","e","r","n","a","t","i","v","e">>,
             <<"o","p","t","i","o","n">>,
             <<"s","u","b","s","t","i","t","u","t","e">>,
             <<"b","e","t","t","e","r">>,
             <<"p","r","e","f","e","r">>,
             <<"r","e","c","o","m","m","e","n","d">>,
             <<"s","u","g","g","e","s","t">>,
             <<"b","e","s","t">>,
             <<"f","i","r","s","t"," ","o","n","e">>,
             <<"s","e","c","o","n","d"," ","o","n","e">>,
             <<"t","h","i","r","d"," ","o","n","e">>,
             <<"f","i","r","s","t"," ","o","p","t","i","o","n">>,
             <<"s","e","c","o","n","d"," ","o","p","t","i","o","n">>}
        top == Take(results, 3)
        recipe_titles_mentioned ==
            Cardinality({i \in DOMAIN top :
                           LET title == Strip(Lower(top[i].title))
                           IN  title # <<>> /\ Contains(translated_msg, title)})
    IN  IF messages = <<>> \/ results = <<>> THEN FALSE
        ELSE IF AnyIn(comparison_keywords, translated_msg) THEN TRUE
        ELSE Len(results) >= 2 /\ recipe_titles_mentioned >= 2

FullRecipeMsgs ==
    {MsgWhichOneIsBetter, MsgWhichTakesLonger, MsgCompareAndGive, MsgLasagnaVersusPizza,
     MsgLasagnaPlease, MsgTheDifference, MsgThanks, MsgSecondOne, MsgLong}

InitFullRecipe ==
    /\ PipelineIdle
    /\ call \in [op : {"user_requested_full_recipe"},
                 messages : {<<>>} \cup {<<UserMessage(m)>> : m \in FullRecipeMsgs},
                 results : {<<>>, <<RecipeLasagna, RecipePizza>>},
                 translation : TranslationAnswers, is_comparison : BOOLEAN,
                 done : {FALSE}, result : {FALSE},
                 compared : {FALSE}, comparison : {FALSE}]

FullRecipeCall ==
    /\ call.op = "user_requested_full_recipe"
    /\ ~call.done
    /\ call' = [call EXCEPT
                  !.done = TRUE,
                  !.result = helpers_user_requested_full_recipe(
                                 call.messages, call.results, call.translation,
                                 call.is_comparison)]
    /\ PipelineUnchanged

FollowUpComparisonCall ==
    /\ call.op = "user_requested_full_recipe"
    /\ ~call.compared
    /\ call' = [call EXCEPT
                  !.compared = TRUE,
                  !.comparison = is_follow_up_comparison(call.messages, call.results,
                                                         call.translation)]
    /\ PipelineUnchanged

\* the two heuristics asked about the same message and pool, in either order
FullRecipeNext == FullRecipeCall \/ FollowUpComparisonCall

SpecFullRecipe == InitFullRecipe /\ [][FullRecipeNext]_vars

-----------------------------------------------------------------------------
(* The reference extraction on candidates that the test of the loops must   *)
(* reject: a title of three letters, the same with a trailing space, a      *)
(* title made of stop words only, a section heading, and the same title in  *)
(* two spellings, in one assistant message or in two.                       *)

TitleShort == <<"P","i","e">>
TitleShortPadded == <<"P","i","e"," ">>
TitleStopWords == <<"R","e","c","i","p","e"," ","O","p","t","i","o","n">>

TitleElements ==
    {Element("numbered", TitleLasagna), Element("bold", TitleLasagnaLower),
     Element("bold", HeadingIngredients), Element("bold", TitleShort),
     Element("bold", TitleShortPadded), Element("numbered", TitleStopWords)}

TitleHistories ==
    {<<UserMessage(MsgItalianDinner), AssistantMessage(Content(latest)), UserMessage(MsgFirstOne)>> :
        latest \in SeqsUpTo(TitleElements, MaxItems)}
    \cup
    {<<UserMessage(MsgItalianDinner), AssistantMessage(Content(<<older>>)),
       UserMessage(MsgItalianDinner), AssistantMessage(Content(<<latest>>)), UserMessage(MsgFirstOne)>> :
        older \in TitleElements, latest \in TitleElements}

InitTitles ==
    /\ PipelineIdle
    /\ call \in [op : {"analyze_recipe_request"}, messages : TitleHistories,
                 answer : {"honours_contract"}, done : {FALSE}, titles : {<<>>},
                 result : {Analysis("None", <<>>, <<>>, "")}]

SpecTitles == InitTitles /\ [][ResolveCall]_vars

-----------------------------------------------------------------------------
(* The retrieval query: agents/search_agent.py, search_recipes, up to the   *)
(* text handed to the embedding.                                            *)

Unknown == <<"u","n","k","n","o","w","n">>
\* query_terms = ["healthy dinner"]
FallbackTerm == <<"h","e","a","l","t","h","y"," ","d","i","n","n","e","r">>

SlotEnglish == <<"E","n","g","l","i","s","h">>
SlotItalian == <<"i","t","a","l","i","a","n">>
SlotVegan == <<"v","e","g","a","n">>
SlotPizza == <<"p","i","z","z","a">>
SlotDinner == <<"d","i","n","n","e","r">>
SlotShort == <<"s","h","o","r","t">>
IngredientChicken == <<"c","h","i","c","k","e","n">>
IngredientAvocado == <<"a","v","o","c","a","d","o">>
AllergyGluten == <<"g","l","u","t","e","n">>

\* the terms of the query: the five fields read, then the ingredients
query_terms(preferences) ==
    LET fields == <<preferences.cuisine, preferences.diet, preferences.dish,
                    preferences.meal_type, preferences.cooking_time>>
        valid == SelectSeq(fields, LAMBDA field : field # <<>> /\ field # Unknown)
        terms == valid \o preferences.ingredients
    IN  IF terms = <<>> THEN <<FallbackTerm>> ELSE terms

query_text(preferences) == Join(query_terms(preferences))

\* What the parser can hand over: every slot unknown or set, up to two
\* ingredients, an ingredient that is the empty text, and an allergy.
QueryPreferences ==
    [language : {Unknown, SlotEnglish}, cuisine : {Unknown, SlotItalian},
     diet : {Unknown, SlotVegan}, dish : {Unknown, SlotPizza},
     ingredients : {<<>>, <<IngredientChicken>>, <<IngredientChicken, IngredientAvocado>>, <<MsgEmpty>>},
     allergies : {<<>>, <<AllergyGluten>>},
     meal_type : {Unknown, SlotDinner}, cooking_time : {Unknown, SlotShort}]

InitQuery ==
    /\ PipelineIdle
    /\ call \in [op : {"search_recipes"}, preferences : QueryPreferences,
                 done : {FALSE}, query_text : {<<>>}]

QueryCall ==
    /\ call.op = "search_recipes"
    /\ ~call.done
    /\ call' = [call EXCEPT !.done = TRUE, !.query_text = query_text(call.preferences)]
    /\ PipelineUnchanged

SpecQuery == InitQuery /\ [][QueryCall]_vars

-----------------------------------------------------------------------------
(* The chat_messages table on its own: db/models.py and db/services.py.     *)
(* A row gets the time of the database at its insertion; the clock may or   *)
(* may not have moved between two insertions. A query ordered by timestamp  *)
(* alone leaves the order of rows of equal timestamp to the database: each  *)
(* order that respects the timestamps is a result it can give.              *)

MaxRows == 3        \* rows inserted per behaviour

\* ChatMessage: id is the primary key, timestamp the server default now()
ChatMessage(id, conversation_id, message, timestamp) ==
    [id |-> id, conversation_id |-> conversation_id, role |-> message.role,
     content |-> message.content, timestamp |-> timestamp]

LogMessages ==
    {UserMessage(MsgItalianDinner), AssistantMessage(ApologyReply), UserMessage(MsgFirstOne)}

\* the positions, in the table, of the rows of a conversation
RowsOf(table, conversation_id) ==
    {i \in DOMAIN table : table[i].conversation_id = conversation_id}

\* filter(conversation_id == ...).order_by(timestamp.asc()).all(): the orders
\* of the rows of the conversation in which no timestamp decreases
rows_ordered_by_timestamp(table, conversation_id) ==
    LET rows == RowsOf(table, conversation_id)
    IN  {q \in SeqsUpTo(rows, Cardinality(rows)) :
            /\ Len(q) = Cardinality(rows)
            /\ NoRepeat(q)
            /\ \A i, j \in DOMAIN q : i < j => table[q[i]].timestamp <= table[q[j]].timestamp}

InitLog ==
    /\ PipelineIdle
    /\ call = [op |-> "chat_messages", table |-> <<>>, now |-> 0,
               loaded |-> FALSE, conversation_id |-> "", messages |-> <<>>]

\* the clock of the database moves on
ClockTick ==
    /\ call.op = "chat_messages"
    /\ call.now < Len(call.table)
    /\ call' = [call EXCEPT !.now = @ + 1, !.loaded = FALSE, !.conversation_id = "",
                            !.messages = <<>>]
    /\ PipelineUnchanged

\* save_message_to_db
SaveMessageCall(c, message) ==
    /\ call.op = "chat_messages"
    /\ Len(call.table) < MaxRows
    /\ call' = [call EXCEPT
                  !.table = Append(@, ChatMessage(Len(@) + 1, c, message, call.now)),
                  !.loaded = FALSE, !.conversation_id = "", !.messages = <<>>]
    /\ PipelineUnchanged

\* load_conversation_history
LoadHistoryCall(c) ==
    /\ call.op = "chat_messages"
    /\ \E q \in rows_ordered_by_timestamp(call.table, c) :
          call' = [call EXCEPT
                     !.loaded = TRUE, !.conversation_id = c,
                     !.messages = [i \in DOMAIN q |->
                                     [role |-> call.table[q[i]].role,
                                      content |-> call.table[q[i]].content]]]
    /\ PipelineUnchanged

LogNext ==
    \/ ClockTick
    \/ \E c \in OverlapIds, message \in LogMessages : SaveMessageCall(c, message)
    \/ \E c \in OverlapIds : LoadHistoryCall(c)

SpecLog == InitLog /\ [][LogNext]_vars

-----------------------------------------------------------------------------
(* Claims.                                                                  *)

\* the request in flight has been classified
Classified == pc \in {"parse", "search", "response", "END", "raised"}

\* an assistant turn before the request in flight showed at least one recipe
RecipeShownBefore ==
    \E i \in 1..turn0.log_len :
        /\ log[turn0.conversation_id][i].role = "assistant"
        /\ log[turn0.conversation_id][i].content.shown # <<>>

\* C1: the intent of a turn is recipe_request only if an earlier assistant turn of
\* the conversation actually showed at least one recipe (an apology or a reply to
\* an empty retrieval shows none).
C1_RecipeRequestOnlyAfterRecipeShown ==
    (Classified /\ st.intent = "recipe_request") => RecipeShownBefore

\* the classifier was applied to a history on which it consults the oracle, and
\* the oracle answered with an intent
ClassifierAnswered ==
    /\ call.op = "classify_intent"
    /\ call.done
    /\ call.messages # <<>>
    /\ LastUserContent(call.messages) # <<>>
    /\ call.answer.status = "ok"
    /\ call.answer.has_intent

\* C2: with no assistant turn in the history, an oracle answer of recipe_request is
\* returned as new_search with a reasoning that records the override; every other
\* oracle answer is returned with the oracle's intent unchanged.
C2_OverrideExactlyRecipeRequest ==
    ClassifierAnswered =>
        IF call.answer.intent = "recipe_request" /\ assistant_messages(call.messages) = {}
        THEN /\ call.result.intent = "new_search"
             /\ call.result.reasoning.overridden
             /\ call.result.reasoning.text =
                    (IF call.answer.has_reasoning THEN OracleReasoning.text ELSE "")
        ELSE /\ call.result.intent = call.answer.intent
             /\ ~call.result.reasoning.overridden

C2_Witness ==
    /\ ClassifierAnswered
    /\ call.answer.intent = "recipe_request"
    /\ assistant_messages(call.messages) = {}
    /\ Len(call.messages) > 1
    /\ call.result.intent = "new_search"
    /\ call.result.reasoning.overridden

\* C3: on every history with no assistant turn the classifier returns new_search,
\* whatever the oracle answers.
C3_NoAssistantTurnMeansNewSearch ==
    (/\ call.op = "classify_intent"
     /\ call.done
     /\ assistant_messages(call.messages) = {}
     /\ call.answer.status = "ok" => (call.answer.has_intent => call.answer.intent \in Intents))
    => call.result.intent = "new_search"


Resolved == call.op = "analyze_recipe_request" /\ call.done

AssistantContents(messages) ==
    LET replies == SelectSeq(messages, LAMBDA m : m.role = "assistant")
    IN  [i \in DOMAIN replies |-> replies[i].content.elements]

\* the history has one assistant turn, a list of distinct numbered titles
OneNumberedList(messages) ==
    LET turns == AssistantContents(messages)
    IN  /\ Len(turns) = 1
        /\ turns[1] # <<>>
        /\ \A i \in DOMAIN turns[1] : turns[1][i].pattern = "numbered"
        /\ \A i, j \in DOMAIN turns[1] : i # j => turns[1][i].title # turns[1][j].title

\* C4: when the latest assistant turn lists the numbered titles T1..Tn and the
\* user names the k-th by ordinal (k <= n), the list handed to the resolver has
\* Tk at position k (index k-1), and an oracle that honours the index contract
\* answers Tk.
C4_OrdinalBindsDisplayedPosition ==
    (Resolved /\ OneNumberedList(call.messages)) =>
        LET shown == AssistantContents(call.messages)[1]
            k == OrdinalSaid(LastUserContent(call.messages))
        IN  (k >= 1 /\ k <= Len(shown)) =>
                /\ Len(call.titles) >= k
                /\ call.titles[k] = shown[k].title
                /\ call.answer = "honours_contract" =>
                       call.result.matched_recipe_title = shown[k].title

RECURSIVE Flatten(_)
Flatten(seqs) == IF seqs = <<>> THEN <<>> ELSE Head(seqs) \o Flatten(Tail(seqs))

RECURSIVE FirstAppearances(_, _)
\* the titles in the order in which each first appeared, whatever its case
FirstAppearances(titles, kept) ==
    IF titles = <<>> THEN kept
    ELSE IF Lower(Head(titles)) \in seen_titles(kept)
    THEN FirstAppearances(Tail(titles), kept)
    ELSE FirstAppearances(Tail(titles), Append(kept, Head(titles)))

ChronologicalTitles(messages) ==
    LET all == Flatten(AssistantContents(messages))
        titles == SelectSeq([i \in DOMAIN all |-> Lower(all[i].title)], ValidTitle)
    IN  FirstAppearances(titles, <<>>)

\* C5: the title list built by the reference extraction is in chronological
\* order of first appearance: position 1 (index 0) holds the first title that
\* ever appeared, and a repeated title stands where it first appeared.
C5_TitlesInOrderOfFirstAppearance ==
    Resolved =>
        [i \in DOMAIN call.titles |-> Lower(call.titles[i])] = ChronologicalTitles(call.messages)

\* the priority of the best strategy of handle_recipe_request that picks
\* entry i of the pool: 2 substring, 3 fuzzy word overlap, 5 fallback to the first
StrategyOf(i, results, last_user_msg) ==
    IF TitleInMessage(results[i], last_user_msg) THEN 2
    ELSE IF KeyWordsInMessage(results[i], last_user_msg) THEN 3
    ELSE IF i = 1 THEN 5
    ELSE 6

TitleSelected ==
    /\ call.op = "handle_recipe_request" /\ call.done
    /\ call.results # <<>> /\ call.messages # <<>>

ReferenceSelected ==
    /\ call.op = "user_selected_recipe" /\ call.done
    /\ call.messages # <<>>

\* C6: selection applies its strategies in the fixed priority exact title >
\* substring > fuzzy word overlap > ordinal > fallback to the first entry: when
\* an earlier strategy matches one entry and a later strategy another, the
\* entry of the earlier strategy is selected, wherever the entries stand in
\* the pool.
C6_EarlierStrategyWins ==
    /\ TitleSelected =>
         LET msg == Lower(LastUserContent(call.messages))
             chosen == CHOOSE i \in DOMAIN call.results :
                          call.results[i].title = call.result.generated_response.shown[1]
         IN  \A j \in DOMAIN call.results :
                StrategyOf(chosen, call.results, msg) <= StrategyOf(j, call.results, msg)
    /\ ReferenceSelected =>
         \A i \in DOMAIN call.results :
            (call.answer.status = "title"
                /\ Lower(call.results[i].title) = Lower(call.answer.title))
            => call.result = call.results[i]

Range(s) == {s[i] : i \in DOMAIN s}

SkipsRetrieval(intent) == intent \in {"comparison", "general"}

\* C7: a turn whose intent is comparison or general never runs the retrieval
\* stage, and the result pool of the conversation (the results of the state and
\* the stored cache) is after the turn what it was before the turn.
C7_NoRetrievalAndPoolKept ==
    /\ (pc \in {"response", "END"} /\ SkipsRetrieval(st.intent)) =>
          /\ "search" \notin Range(visited)
          /\ st.results = turn0.cache
          /\ conversation_results[st.conversation_id] = turn0.cache
    /\ (pc = "idle" /\ SkipsRetrieval(last.intent)) =>
          /\ "search" \notin Range(last.visited)
          /\ "response" \in Range(last.visited)
          /\ conversation_results[last.conversation_id] = last.cache_before

C7_Witness ==
    /\ pc = "idle"
    /\ last.intent = "comparison"
    /\ last.status = "200"
    /\ last.cache_before # <<>>

\* C8: in every turn classified recipe_request the request resolution stage
\* runs after the classification and before the reply is produced, and it runs
\* in no turn of another intent.
C8_ResolverRunsForRecipeRequest ==
    pc = "END" =>
        IF st.intent = "recipe_request"
        THEN \E i, j \in DOMAIN visited :
                /\ i < j
                /\ visited[i] = "recipe_analysis"
                /\ visited[j] \in {"response", "show_recipes"}
        ELSE "recipe_analysis" \notin Range(visited)

\* C9: in every turn whose intent is new_search retrieval runs on the
\* preferences parsed in that turn and the reply is a list of options, never a
\* full recipe, whatever the user wrote.
C9_NewSearchRepliesWithOptions ==
    (pc = "END" /\ st.intent = "new_search") =>
        /\ \E i, j \in DOMAIN visited :
              i < j /\ visited[i] = "parse" /\ visited[j] = "search"
        /\ st.generated_response.kind # "full_recipe"

\* the rows the turn in flight has added to the log of its conversation
RowsOfTurn ==
    SubSeq(log[st.conversation_id], turn0.log_len + 1, Len(log[st.conversation_id]))

TurnFinished == pc = "idle" /\ last.status # "none"

\* C11 as stated: at the end of every turn, also of one that retrieved nothing,
\* the results the turn ended on are the carried results the next turn of the
\* conversation starts with.
C11_EveryTurnCarriesItsResults ==
    /\ TurnFinished => conversation_results[last.conversation_id] = last.results
    /\ pc = "intent" => st.results = conversation_results[st.conversation_id]

\* the graph of the turn in flight has returned or raised
GraphEnded == pc \in {"END", "raised"}

\* an oracle failed, or answered what its stage cannot use, in the turn in flight
ClassificationFailed == st.intent_reasoning = FallbackReasoning
ParsingFailed == st.preferences = "all_unknown" \/ pc = "raised"
RetrievalFailed == "search" \in Range(visited) /\ st.results = <<>>
GenerationFailed == st.generated_response.kind = "options_fallback"

\* C12: when an oracle or network call fails inside a stage (classification,
\* parsing, retrieval, generation) the failure is caught in that stage, the turn
\* still ends with a templated or best-effort reply, and the user message and
\* the reply of the turn are in the log. (Stated for turns with a message that
\* is not empty, and a reply is in the log whenever its text is not empty.)
C12_StageFailureStillRepliesAndLogs ==
    (/\ GraphEnded
     /\ st.user_input # <<>>
     /\ ClassificationFailed \/ ParsingFailed \/ RetrievalFailed \/ GenerationFailed)
    => /\ pc = "END"
       /\ st.generated_response.kind # "none"
       /\ RowsOfTurn # <<>>
       /\ RowsOfTurn[1] = UserMessage(st.user_input)
       /\ ~st.generated_response.empty =>
             RowsOfTurn = <<UserMessage(st.user_input), AssistantMessage(st.generated_response)>>

MissingDataDetails ==
    {"Internal error: 500: Parser failed to extract preferences.",
     "Internal error: 500: Search agent failed to find recipes."}

\* C13: the user receives a reply for every turn except in the two missing-data
\* conditions (no preferences parsed, no results at the end of the turn), which
\* end the request as a request-level failure; nothing else does.
C13_OnlyMissingDataFailsTheRequest ==
    TurnFinished =>
        /\ last.status \in {"200", "500"}
        /\ last.status = "200" => (last.reply.kind # "none" /\ last.results # <<>>)
        /\ last.status = "500" =>
              /\ last.detail \in MissingDataDetails
              /\ "response" \in Range(last.visited)

\* the classifier consulted the oracle and the call raised or its output could
\* not be parsed
ClassifierFailed ==
    /\ call.op = "classify_intent"
    /\ call.done
    /\ call.messages # <<>>
    /\ LastUserContent(call.messages) # <<>>
    /\ call.answer.status = "fail"

ResolverFailed ==
    /\ call.op = "analyze_recipe_request"
    /\ call.done
    /\ call.messages # <<>>
    /\ LastUserContent(call.messages) # <<>>
    /\ call.answer = "fail"

ShortMessage == Len(Split(LastUserContent(call.messages))) <= FallbackMaxWords

\* C15: when the request-resolution oracle fails, analyze_recipe_request
\* returns type "dish" exactly when at least one title was shown before and
\* the last user message has at most five words, and type "new_dish"
\* otherwise; matched_recipe_title and dish_name are empty in both cases and
\* a result is returned (no failure reaches the caller).
C15_ResolverFallback ==
    ResolverFailed =>
        /\ call.result.type \in {"dish", "new_dish"}
        /\ call.result.type = "dish" <=> (call.titles # <<>> /\ ShortMessage)
        /\ call.result.matched_recipe_title = <<>>
        /\ call.result.dish_name = <<>>

C15_Witness ==
    /\ ResolverFailed
    /\ call.titles # <<>>
    /\ Len(Split(LastUserContent(call.messages))) = FallbackMaxWords
    /\ call.result.type = "dish"

SelectionMade ==
    /\ call.op = "handle_recipe_request"
    /\ call.done
    /\ call.results # <<>>

NoStrategyMatched ==
    \/ call.messages = <<>>
    \/ \A i \in DOMAIN call.results :
          /\ ~TitleInMessage(call.results[i], Lower(LastUserContent(call.messages)))
          /\ ~KeyWordsInMessage(call.results[i], Lower(LastUserContent(call.messages)))

SameTitle(a, b) == Normalize(Lower(Strip(a))) = Normalize(Lower(Strip(b)))

OrdinalApplies ==
    \E k \in DOMAIN number_map :
        /\ Contains(translate_to_english(Lower(Strip(LastUserContent(call.messages))),
                                         call.translation),
                    number_map[k].word)
        /\ Len(call.results) > number_map[k].index

TitleReferenced ==
    /\ ReferenceSelected
    /\ ~OrdinalApplies
    /\ call.answer.status = "title"

\* C17: a referenced title matches a pool title whenever the two differ only
\* in letter case or in runs of whitespace: when the reference names such a
\* title, user_selected_recipe returns the pool entry that carries it.
C17_TitleMatchIgnoresCaseAndSpacing ==
    TitleReferenced =>
        \A i \in DOMAIN call.results :
            SameTitle(call.results[i].title, call.answer.title) =>
                /\ call.result # NoRecipe
                /\ SameTitle(call.result.title, call.answer.title)

PoolBuilt ==
    /\ call.op = "response_node"
    /\ call.done
    /\ call.intent = "recipe_request"

NormalizedTitle(r) == Normalize(Lower(Strip(r.title)))

\* C18: the pool of a recipe_request turn is the current results followed by
\* the carried-over results, every current entry before every carried entry,
\* and no two entries of the pool have the same normalized title.
C18_PoolCurrentFirstNoDuplicateTitles ==
    PoolBuilt =>
        /\ Len(call.result) >= Len(call.results)
        /\ SubSeq(call.result, 1, Len(call.results)) = call.results
        /\ \A i \in (Len(call.results) + 1)..Len(call.result) :
              call.result[i] \in Range(call.previous_results)
        /\ \A r \in Range(call.previous_results) :
              \E i \in DOMAIN call.result :
                  NormalizedTitle(call.result[i]) = NormalizedTitle(r)
        /\ \A i, j \in DOMAIN call.result :
              NormalizedTitle(call.result[i]) = NormalizedTitle(call.result[j]) => i = j

ReplyTo(results) ==
    IF results = <<>> THEN ApologyReply
    ELSE Reply("options", Titles(Take(results, OptionsShown)), FALSE)

\* C19: turns of distinct conversation ids are independent under any
\* interleaving of their handlers: as long as no two turns of conversation c
\* were in flight together, the cache of c, the carried results of a turn of c
\* and the reply it logs are those of c's turns run alone, one after another,
\* whatever the turns of the other conversation did in between.
C19_DistinctConversationsIndependent ==
    \A c \in OverlapIds :
        ~call.overlapped[c] =>
            /\ conversation_results[c] = call.alone[c]
            /\ \A h \in Handlers :
                  (InFlight(h) /\ call.req[h].conversation_id = c) =>
                      /\ call.req[h].carried = call.alone[c]
                      /\ (call.req[h].pc = "finish" /\ ~call.req[h].raised) =>
                            /\ log[c] # <<>>
                            /\ log[c][Len(log[c])] =
                                   AssistantMessage(ReplyTo(AloneResults(call.alone[c], call.req[h])))

C19_Witness ==
    /\ call.req["h1"].pc = "done" /\ call.req["h1"].wrote
    /\ call.req["h1"].conversation_id = "c1"
    /\ call.req["h2"].pc = "finish" /\ ~call.req["h2"].raised
    /\ call.req["h2"].conversation_id = "c2"
    /\ call.req["h2"].turn < call.req["h1"].turn
    /\ call.req["h2"].results # <<>>
    /\ call.req["h2"].results # call.req["h1"].results
    /\ conversation_results["c1"] = call.req["h1"].results
    /\ conversation_results["c2"] = call.alone["c2"]

Lacks(carried, results) == \E i \in DOMAIN results : results[i] \notin Range(carried)

\* the turn of handler b is the next turn of its conversation after the turn
\* of handler a, a stored its results, and b works on carried results that
\* lack them
WorksWithoutResultsOf(a, b) ==
    /\ a # b
    /\ call.req[a].conversation_id = call.req[b].conversation_id
    /\ call.req[a].pc = "done" /\ call.req[a].wrote
    /\ call.req[b].pc \in {"graph", "finish", "done"}
    /\ call.req[b].after = call.req[a].turn
    /\ Lacks(call.req[b].carried, call.req[a].results)

\* C20: the cache of a conversation is read once when a turn starts and
\* overwritten when it ends: after a turn stored its results the cache holds
\* exactly them, and a turn works on carried results that lack the stored
\* results of the turn before it only if turns of that conversation were in
\* flight together; with the turns of a conversation serialized this does
\* not happen.
C20_LostResultsOnlyWhenTurnsOverlap ==
    /\ \A h \in Handlers :
          (/\ call.req[h].pc = "done" /\ call.req[h].wrote
           /\ call.writer[call.req[h].conversation_id] = call.req[h].turn) =>
              conversation_results[call.req[h].conversation_id] = call.req[h].results
    /\ \A a, b \in Handlers :
          WorksWithoutResultsOf(a, b) => call.overlapped[call.req[a].conversation_id]

\* two turns of one conversation overlapped: the later-started one worked
\* without the results of the other and wrote last, and the cache holds its
\* results only
C20_Witness ==
    \E a, b \in Handlers :
        /\ WorksWithoutResultsOf(a, b)
        /\ call.req[a].turn \in call.req[b].in_flight
        /\ call.req[b].pc = "done" /\ call.req[b].wrote
        /\ call.writer[call.req[b].conversation_id] = call.req[b].turn
        /\ conversation_results[call.req[b].conversation_id] = call.req[b].results
        /\ Lacks(conversation_results[call.req[b].conversation_id], call.req[a].results)

\* C21: every turn that begins terminates: no stage is visited twice in one
\* turn, and from the entry stage the graph reaches its terminal state.
C21_EveryTurnReachesTheTerminalState ==
    /\ [](NoRepeat(visited))
    /\ (pc = "intent") ~> (pc = "END")

\* the stages that consult an oracle once each time they run
OracleStages == {"intent", "recipe_analysis", "search"}

TimesVisited(stage) == Cardinality({i \in DOMAIN visited : visited[i] = stage})

\* C22: no stage retries on oracle failure: within one turn each of the
\* classification, request-resolution and retrieval oracles is consulted at
\* most once, a failed classification is followed by the route of its
\* fallback new_search, and a failed retrieval by the response stage.
C22_NoStageRetries ==
    /\ \A stage \in OracleStages : TimesVisited(stage) <= 1
    /\ ("intent" \in Range(visited) /\ ClassificationFailed) =>
          /\ st.intent = "new_search"
          /\ pc \in {"parse", "search", "response", "raised", "END"}
    /\ RetrievalFailed =>
          /\ pc \in {"response", "END"}
          /\ visited \in {<<"intent", "parse", "search">>,
                          <<"intent", "parse", "search", "response">>}

C22_Witness ==
    /\ pc = "END"
    /\ ClassificationFailed
    /\ RetrievalFailed
    /\ visited = <<"intent", "parse", "search", "response">>

SaidTo(msg, n) ==
    /\ ReferenceSelected
    /\ call.messages = <<UserMessage(msg)>>
    /\ Len(call.results) >= n

\* C23: the ordinal of the user message selects the pool entry of its table
\* index when the pool is long enough: "the first one" the entry of index 0,
\* "the second one" that of index 1, "the third one" that of index 2; an
\* ordinal whose index is not below the pool length ("option 2" over a pool of
\* one) selects nothing by this strategy, so the entry returned, if any, is
\* the one the title reference names.
C23_OrdinalSelectsItsTableIndex ==
    /\ SaidTo(MsgFirstOne, 1) => call.result = call.results[1]
    /\ SaidTo(MsgSecondOne, 2) => call.result = call.results[2]
    /\ SaidTo(MsgThirdOne, 3) => call.result = call.results[3]
    /\ (SaidTo(MsgOption2, 1) /\ Len(call.results) = 1) =>
          \/ call.result = NoRecipe
          \/ /\ call.answer.status = "title"
             /\ SameTitle(call.result.title, call.answer.title)

SignificantTokens(recipe) == recipe_words(Normalize(Strip(Lower(recipe.title))))

\* at least min(2, number of significant tokens) significant tokens of the
\* title occur in the message
EnoughTokensCoOccur(recipe, msg) ==
    LET words == SignificantTokens(recipe)
    IN  /\ words # <<>>
        /\ matched_words(words, Normalize(msg)) >= Min({MinKeyWords, Len(words)})

\* C24: word-overlap matching accepts a pool entry if and only if at least
\* min(2, number of significant tokens of its title) tokens longer than three
\* characters occur in the message: when no full title occurs in the message,
\* the recipe returned is the first entry with that many tokens in the message,
\* in particular an entry whose one significant token occurs.
C24_WordOverlapAcceptsMinOfTwoAndTokens ==
    TitleSelected =>
        LET msg == Lower(LastUserContent(call.messages))
            accepted == {i \in DOMAIN call.results : EnoughTokensCoOccur(call.results[i], msg)}
        IN  (/\ \A i \in DOMAIN call.results : ~TitleInMessage(call.results[i], msg)
             /\ accepted # {}) =>
                call.result.generated_response.shown = <<call.results[Min(accepted)].title>>

IsPrefix(p, q) == Len(p) <= Len(q) /\ SubSeq(q, 1, Len(p)) = p

\* the turn is on the path `path`: it visited a prefix of it and stands before
\* the next stage of it, at the end of the graph after the last, or the parse
\* stage raised
OnPath(path) ==
    /\ IsPrefix(visited, path)
    /\ \/ pc = (IF Len(visited) = Len(path) THEN "END" ELSE path[Len(visited) + 1])
       \/ pc = "raised" /\ visited[Len(visited)] = "parse"

RequestResolved == visited # <<>> /\ visited[1] = "recipe_analysis"

\* C25: after request resolution the turn is routed by type: specific_recipe
\* to the response stage; dish to the show-recipes stage and then to the end,
\* with no retrieval; new_dish, a missing type or any other type through
\* parsing and one retrieval to the response stage.
C25_RoutedByRequestType ==
    RequestResolved =>
        /\ st.recipe_request_type = "specific_recipe" =>
              OnPath(<<"recipe_analysis", "response">>)
        /\ st.recipe_request_type = "dish" =>
              OnPath(<<"recipe_analysis", "show_recipes">>)
        /\ st.recipe_request_type \notin {"specific_recipe", "dish"} =>
              /\ OnPath(<<"recipe_analysis", "parse", "search", "response">>)
              /\ pc \in {"response", "END"} => TimesVisited("search") = 1

C25_Witness ==
    /\ RequestResolved
    /\ st.recipe_request_type = "dish"
    /\ pc = "END"
    /\ visited = <<"recipe_analysis", "show_recipes">>
    /\ st.generated_response.kind = "options"

DishShown ==
    /\ RequestResolved
    /\ st.recipe_request_type = "dish"
    /\ st.dish_name # <<>>
    /\ "show_recipes" \in Range(visited)

HoldsDishName(recipe) == Contains(Lower(recipe.title), Lower(st.dish_name))

\* C26: in the dish path the options shown again are exactly the pool entries
\* whose title contains the dish name, whatever the case of the letters; an
\* entry whose title does not contain it is never among them.
C26_DishOptionsAreTheEntriesOfTheDish ==
    DishShown =>
        LET pool == with_previous_results(st)
            shown == st.generated_response.shown
        IN  /\ \A i \in DOMAIN pool :
                  HoldsDishName(pool[i]) <=> pool[i].title \in Range(shown)
            /\ \A t \in Range(shown) : \E i \in DOMAIN pool : pool[i].title = t

FullRecipeAsked ==
    /\ call.op = "user_requested_full_recipe"
    /\ call.done
    /\ call.messages # <<>>

\* the comparison and question words the tie-break rule names
ComparisonVocabulary ==
    {<<"w","h","i","c","h">>, <<"d","i","f","f","e","r","e","n","c","e">>,
     <<"v","e","r","s","u","s">>}

\* C27: a user message with comparison or question vocabulary ("which",
\* "difference", "versus") and no explicit recipe-request phrase is never taken
\* for a full-recipe request by user_requested_full_recipe, even when it holds
\* a selection pattern or a pool title; and a message already identified as a
\* comparison is never taken for one.
C27_ComparisonIsNoRecipeRequest ==
    FullRecipeAsked =>
        LET msg == Lower(LastUserContent(call.messages))
        IN  /\ (AnyIn(ComparisonVocabulary, msg) /\ ~explicit_recipe_request(msg)) =>
                  call.result = FALSE
            /\ call.is_comparison => call.result = FALSE

\* every match of the three patterns in the assistant messages of a history
Candidates(messages) ==
    UNION {Range(messages[i].content.elements) :
             i \in {k \in DOMAIN messages : messages[k].role = "assistant"}}

TitlesExtracted ==
    /\ call.op = "analyze_recipe_request"
    /\ call.done

\* C28: whatever the history, the extracted title list holds no two titles
\* that are equal ignoring case, no title of three characters or fewer, and no
\* title whose lowercase form, or every word of which, is a stop word (crust,
\* ingredients, toppings, directions, source, recipe, option, choice).
C28_ExtractedTitlesAreDistinctAndValid ==
    TitlesExtracted =>
        /\ \A i, j \in DOMAIN call.titles :
              i # j => Lower(call.titles[i]) # Lower(call.titles[j])
        /\ \A i \in DOMAIN call.titles :
              LET title_lower == Lower(call.titles[i])
                  words == Split(title_lower)
              IN  /\ Len(call.titles[i]) > 3
                  /\ ~(title_lower \in excluded_words)
                  /\ \E w \in DOMAIN words : ~(words[w] \in excluded_words)

\* a history that shows a title of three letters and one title in two
\* spellings, from which one title was extracted
C28_Witness ==
    /\ TitlesExtracted
    /\ \E e \in Candidates(call.messages) : CleanTitle(e) = TitleShort
    /\ \E e, f \in Candidates(call.messages) :
          e.title # f.title /\ Lower(e.title) = Lower(f.title)
    /\ Len(call.titles) = 1

NoAssistantTurn ==
    /\ call.op = "analyze_recipe_request"
    /\ call.done
    /\ \A i \in DOMAIN call.messages : call.messages[i].role # "assistant"

\* C29: when the history has no assistant turn the extracted title list is
\* empty and the resolver still returns a result of one of its types; when its
\* oracle fails the result is new_dish, for a last user message of three words
\* as for one of seven.
C29_NoAssistantTurnMeansNoCandidates ==
    NoAssistantTurn =>
        /\ call.titles = <<>>
        /\ call.result.type \in {"specific_recipe", "dish", "new_dish"}
        /\ call.answer = "fail" => call.result.type = "new_dish"

\* a failed oracle on a history of one user message of three words
C29_Witness ==
    /\ NoAssistantTurn
    /\ call.answer = "fail"
    /\ call.messages = <<UserMessage(MsgFirstOne)>>
    /\ call.result.type = "new_dish"

NoUserMessage ==
    /\ call.op = "classify_intent"
    /\ call.done
    /\ \A i \in DOMAIN call.messages : call.messages[i].role # "user"

\* C30: for an empty or missing turn list, and for a turn list that holds no
\* user message, classify_intent returns the intent new_search, and nothing
\* else, without calling the classification oracle.
C30_NoUserMessageIsNewSearchWithoutOracle ==
    NoUserMessage =>
        /\ call.result.intent = "new_search"
        /\ call.result.keys = {"intent"}
        /\ ~call.result.oracle_called

\* a turn list of assistant messages only, with an oracle that would have
\* answered recipe_request
C30_Witness ==
    /\ NoUserMessage
    /\ call.messages # <<>>
    /\ call.answer.status = "ok"
    /\ call.answer.has_intent
    /\ call.answer.intent = "recipe_request"
    /\ call.result.intent = "new_search"

\* graph.invoke is about to run the entry stage on the state recommend_meal built
TurnStarts == pc = "intent"

\* C31: intent, intent_reasoning, the request type, matched_recipe_title and
\* dish_name are empty at the start of every turn, whatever earlier turns of
\* the same conversation gave them, and neither the log nor the result cache
\* keeps them.
C31_TransientFieldsStartEmpty ==
    /\ TurnStarts =>
          /\ st.intent = "None"
          /\ st.intent_reasoning = NoReasoning
          /\ st.recipe_request_type = "None"
          /\ st.matched_recipe_title = <<>>
          /\ st.dish_name = <<>>
    /\ \A c \in ConvIds : \A i \in DOMAIN log[c] : DOMAIN log[c][i] = {"role", "content"}

\* the second turn of a conversation whose first turn was classified as a
\* comparison, with a reasoning
C31_Witness ==
    /\ TurnStarts
    /\ last.conversation_id = st.conversation_id
    /\ last.intent = "comparison"
    /\ Len(st.messages) >= 2

QueryBuilt ==
    /\ call.op = "search_recipes"
    /\ call.done

\* the slots of the preference set that hold one value
ScalarSlots == {"language", "cuisine", "diet", "dish", "meal_type", "cooking_time"}

EverySlotUnknown(preferences) == \A slot \in ScalarSlots : preferences[slot] = Unknown

\* C32: the retrieval query holds, joined by spaces, every preference slot
\* value that is not unknown and every listed ingredient; it is the generic
\* fallback term exactly when every slot is unknown and no ingredient is
\* listed; and it is never empty.
C32_QueryIsTheKnownSlotsAndIngredients ==
    QueryBuilt =>
        LET preferences == call.preferences
            words == Split(call.query_text)
        IN  /\ \A slot \in ScalarSlots :
                  preferences[slot] # Unknown =>
                      \E w \in DOMAIN words : words[w] = preferences[slot]
            /\ \A i \in DOMAIN preferences.ingredients :
                  Contains(call.query_text, preferences.ingredients[i])
            /\ call.query_text = FallbackTerm <=>
                  (EverySlotUnknown(preferences) /\ preferences.ingredients = <<>>)
            /\ call.query_text # <<>>

HistoryLoaded ==
    /\ call.op = "chat_messages"
    /\ call.loaded

\* the messages of a conversation in the order of their insertion
AppendedTo(conversation_id) ==
    LET rows == SelectSeq(call.table, LAMBDA row : row.conversation_id = conversation_id)
    IN  [i \in DOMAIN rows |-> [role |-> rows[i].role, content |-> rows[i].content]]

\* C33: loading a conversation returns its turns in exactly the order in
\* which they were appended, whatever the appends were and also when some of
\* them received equal timestamps.
C33_LoadReturnsInsertionOrder ==
    HistoryLoaded => call.messages = AppendedTo(call.conversation_id)

\* the messages the turn in flight added to the history it loaded
AddedThisTurn == SubSeq(st.messages, turn0.log_len + 1, Len(st.messages))

TimesIn(messages, message) == Cardinality({i \in DOMAIN messages : messages[i] = message})

\* C34: in the message list a turn returns, the user input of that turn
\* occurs exactly once, on the route through parsing and retrieval as on the
\* routes that go directly to the response stage.
C34_UserInputOnceInReturnedMessages ==
    pc = "END" => TimesIn(AddedThisTurn, UserMessage(st.user_input)) = 1

\* the graph has ended and recommend_meal is about to answer with an error
RequestFails ==
    \/ pc = "raised"
    \/ pc = "END" /\ (st.preferences = "None" \/ st.results = <<>>)

AssistantRowsOfTurn == SelectSeq(RowsOfTurn, LAMBDA row : row.role = "assistant")

\* C35: the log and the replies delivered agree: an assistant row that a
\* turn added to the log is the reply that the turn's request returns, and a
\* turn that ends as a request-level failure has added no assistant row.
C35_LoggedRepliesWereDelivered ==
    /\ RequestFails => AssistantRowsOfTurn = <<>>
    /\ (pc = "END" /\ ~RequestFails) =>
          \A i \in DOMAIN AssistantRowsOfTurn :
              AssistantRowsOfTurn[i] = AssistantMessage(st.generated_response)

\* the turn of handler h ends as a request-level failure: the graph raised,
\* or it returned without results
HandlerFails(h) == call.req[h].raised \/ call.req[h].results = <<>>

\* C36: a turn that ends as a request-level failure leaves the result cache
\* of every conversation id as it was: the only step of a turn that changes
\* the cache is the last step of a turn that does not fail.
C36_FailedTurnLeavesEveryCache ==
    [][\A h \in Handlers :
          (call'.req[h] # call.req[h] /\ conversation_results' # conversation_results) =>
              (call.req[h].pc = "finish" /\ ~HandlerFails(h))]_vars

\* a turn that retrieved nothing has ended in a conversation whose cache
\* holds the results of an earlier turn, while the other conversation has none
C36_Witness ==
    \E h \in Handlers :
        /\ call.req[h].pc = "done"
        /\ call.req[h].route = "search"
        /\ call.req[h].results = <<>>
        /\ conversation_results[call.req[h].conversation_id] # <<>>

\* the entry stage has just returned and the graph has chosen the next stage
IntentRouted == visited = <<"intent">>

\* C37: routing after the intent classification is total: whatever intent
\* the classification gave, one of the four known or any other value, the
\* graph goes on to a stage, and for a value that is none of the four it goes
\* to the stage it goes to for new_search.
C37_IntentRoutingIsTotal ==
    IntentRouted =>
        /\ pc \in {"parse", "response"}
        /\ st.intent \in {"comparison", "recipe_request", "general"} => pc = "response"
        /\ ~(st.intent \in {"comparison", "recipe_request", "general"}) => pc = "parse"

\* the oracle answered with an intent that is none of the four
C37_Witness ==
    /\ IntentRouted
    /\ ~(st.intent \in Intents)
    /\ st.intent # "None"
    /\ pc = "parse"

BothHeuristicsAsked ==
    /\ call.op = "user_requested_full_recipe"
    /\ call.done
    /\ call.compared
    /\ call.messages # <<>>
    /\ call.results # <<>>

\* C38: the two keyword heuristics exclude each other: for a user message
\* and a pool that is not empty, is_follow_up_comparison and
\* user_requested_full_recipe do not both answer true; "the second one" is
\* not at once a comparison and a full-recipe request.
C38_HeuristicsExcludeEachOther ==
    BothHeuristicsAsked => ~(call.comparison /\ call.result)
=============================================================================
